---- MODULE Spec2Model ----
(***************************************************************************)
(* A model of fb_library: the parametric CAD helper functions are pure     *)
(* functions of their numeric and enum arguments.  Each function is an     *)
(* operator computing the outcome of a call (the exception raised, or the  *)
(* construction steps handed to the CAD kernel and the bounding box of the *)
(* solid they describe).  The state machine is a caller that is idle,      *)
(* calls one library function with arguments drawn from bounded sets, and  *)
(* returns.                                                                *)
(*                                                                         *)
(* Lengths are integers.  Where the source halves a length the inputs are  *)
(* drawn from even integers so that the half is exact.  Angles are drawn   *)
(* from the degrees whose tangent is an integer (-45, 0, 45).              *)
(***************************************************************************)
EXTENDS Integers, Sequences, FiniteSets, TLC

VARIABLES pc, op, args, result

vars == <<pc, op, args, result>>

(***************************************************************************)
(* Bounds of the model.                                                    *)
(***************************************************************************)
MaxCoord == 1
MaxOffset == 3
MaxVTol == 1
MaxHalfHeight == 1
MaxLen == 3
MaxFaces == 2
MaxHalfRadius == 2
MaxHalfPeak == 3
MaxHalfCylinderHeight == 2
MaxDepth == 2
MaxExtension == 1
MaxWall == 3
MaxTolerance == 3
MaxAxisSteps == 1
MaxIndex == 2
MaxSegment == 1
MaxShiftSteps == 1
MaxRadius == 3
MaxRadiusSteps == 1
MaxCutSteps == 1
MaxChamfer == 1
MaxSlotCount == 3

(***************************************************************************)
(* Helpers: arithmetic of the math module on the modelled values.          *)
(***************************************************************************)
Abs(n) == IF n < 0 THEN -n ELSE n

Max2(a, b) == IF a >= b THEN a ELSE b

Min2(a, b) == IF a <= b THEN a ELSE b

\* Python's None, and a value where None is possible
None == <<>>

Some(v) == <<v>>

\* tan(radians(a)) for the angles of the model
Tan(a) == CASE a = -45 -> -1 [] a = 0 -> 0 [] a = 45 -> 1

Angles == {-45, 0, 45}

(***************************************************************************)
(* point.py: Point is a dataclass of x and y; the generated __eq__         *)
(* compares the (x, y) tuples.                                             *)
(***************************************************************************)
Point(x, y) == [x |-> x, y |-> y]

Point__eq__(p, q) == p.x = q.x /\ p.y = q.y

Points == {Point(x, y) : x \in 0..MaxCoord, y \in 0..1}

(***************************************************************************)
(* dovetail.py: dovetail_subpart                                           *)
(***************************************************************************)
DovetailParts == {"TAIL", "SOCKET"}

DovetailStyles == {"TRADITIONAL", "SNUGTAIL", "T_SLOT"}

\* part.bounding_box(): the kernel's part is known to the library only
\* through its bounding box
Parts == [min_z : {0, 1}, size_x : {10}, size_y : {50},
          size_z : {2 * k : k \in 1..MaxHalfHeight}]

part_max_z(part) == part.min_z + part.size_z

ErrStartEnd == "start and end points cannot be the same"

ErrVerticalOffset == "Vertical offset cannot be greater than the part's height"

ErrNegTaper == "a negative taper_angle and a positive vertical_offset will result in an invalid dovetail"

ErrPosTaper == "a positive taper_angle and a positive vertical_offset will result in an invalid dovetail"

NoError == "none"

\* the four guards of dovetail_subpart, in the order of the source; the
\* value is the message of the ValueError raised, or NoError
dovetail_subpart_guards_offset_first(a) ==
    IF Abs(a.vertical_offset) > a.part.size_z THEN ErrVerticalOffset
    ELSE IF Point__eq__(a.start, a.end) THEN ErrStartEnd
    ELSE IF a.vertical_offset < 0 /\ a.taper_angle < 0 THEN ErrNegTaper
    ELSE IF a.vertical_offset > 0 /\ a.taper_angle > 0 THEN ErrPosTaper
    ELSE NoError

dovetail_subpart_guards_no_abs(a) ==
    IF Point__eq__(a.start, a.end) THEN ErrStartEnd
    ELSE IF a.vertical_offset > a.part.size_z THEN ErrVerticalOffset
    ELSE IF a.vertical_offset < 0 /\ a.taper_angle < 0 THEN ErrNegTaper
    ELSE IF a.vertical_offset > 0 /\ a.taper_angle > 0 THEN ErrPosTaper
    ELSE NoError

dovetail_subpart_guards_nonstrict(a) ==
    IF Point__eq__(a.start, a.end) THEN ErrStartEnd
    ELSE IF Abs(a.vertical_offset) > a.part.size_z THEN ErrVerticalOffset
    ELSE IF a.vertical_offset < 0 /\ a.taper_angle <= 0 THEN ErrNegTaper
    ELSE IF a.vertical_offset > 0 /\ a.taper_angle > 0 THEN ErrPosTaper
    ELSE NoError

dovetail_subpart_guards(a) ==
    IF Point__eq__(a.start, a.end) THEN ErrStartEnd
    ELSE IF Abs(a.vertical_offset) > a.part.size_z THEN ErrVerticalOffset
    ELSE IF a.vertical_offset < 0 /\ a.taper_angle < 0 THEN ErrNegTaper
    ELSE IF a.vertical_offset > 0 /\ a.taper_angle > 0 THEN ErrPosTaper
    ELSE NoError

max_dimension(a) ==
    Max2(a.part.size_x, Max2(a.part.size_y, a.part.size_z)) * 3

vertical_tolerance_adjustment(a) ==
    a.vertical_tolerance
    * (IF a.section = "TAIL" THEN 1 ELSE -1)
    * (IF a.vertical_offset > 0 THEN 1 ELSE -1)

scarf_offset(a) == (a.part.size_z * Tan(a.scarf_angle)) \div 2

vertical_scarf_offset(a) ==
    (Abs(a.vertical_offset) - vertical_tolerance_adjustment(a))
    * Tan(a.scarf_angle)

taper_offset(a) ==
    (a.part.size_z - Abs(a.vertical_offset) - vertical_tolerance_adjustment(a))
    * Tan(Abs(a.taper_angle))

\* the defaults of subpart_section for the parameters a call leaves out
SubpartSectionDefaults ==
    [floor_z |-> 0, floor_taper_distance |-> 0, floor_scarf_offset |-> 0,
     top_z |-> 0, top_taper_distance |-> 0, top_scarf_offset |-> 0,
     linear_offset |-> 0, tail_angle_offset |-> 20,
     length_ratio |-> <<1, 3>>, depth_ratio |-> <<1, 6>>,
     straighten_dovetail |-> FALSE]

\* one call of subpart_section: the keyword arguments kw of the call, the
\* arguments every call of dovetail_subpart passes, and the defaults for
\* the rest
SectionCall(a, kw) ==
    kw
    @@ [start |-> a.start, end |-> a.end, max_dimension |-> max_dimension(a),
        section |-> a.section, style |-> a.style,
        tolerance |-> a.tolerance, slot_count |-> a.slot_count,
        depth |-> a.depth, linear_offset |-> a.linear_offset]
    @@ SubpartSectionDefaults

\* the straight section below the dovetail (vertical_offset > 0)
bottom_straight_section(a) ==
    SectionCall(a,
        [floor_z |-> a.part.min_z,
         floor_taper_distance |-> 0,
         floor_scarf_offset |-> -scarf_offset(a),
         top_z |-> a.part.min_z + a.vertical_offset
                   + vertical_tolerance_adjustment(a),
         top_taper_distance |-> 0,
         top_scarf_offset |-> -scarf_offset(a) + vertical_scarf_offset(a),
         straighten_dovetail |-> TRUE])

current_floor(a) ==
    IF a.vertical_offset <= 0 THEN a.part.min_z
    ELSE a.part.min_z + Abs(a.vertical_offset) + a.vertical_tolerance

dovetail_top_z(a) ==
    part_max_z(a.part)
    + (IF a.vertical_offset >= 0 THEN 0
       ELSE a.vertical_offset + vertical_tolerance_adjustment(a))

\* the keyword arguments of the dovetail section, built for every accepted
\* input
dovetail_section_kw(a) ==
    [floor_z |-> current_floor(a),
     floor_taper_distance |-> IF a.taper_angle < 0 THEN taper_offset(a) ELSE 0,
     floor_scarf_offset |->
        IF a.vertical_offset <= 0 THEN -scarf_offset(a)
        ELSE -scarf_offset(a) + vertical_scarf_offset(a),
     top_z |-> dovetail_top_z(a),
     top_taper_distance |-> taper_offset(a),
     top_scarf_offset |->
        scarf_offset(a)
        - (IF a.vertical_offset >= 0 THEN 0 ELSE vertical_scarf_offset(a)),
     tail_angle_offset |-> a.tail_angle_offset,
     length_ratio |-> a.length_ratio,
     depth_ratio |-> a.depth_ratio]

dovetail_section_straightened(a) ==
    SectionCall(a, [straighten_dovetail |-> TRUE] @@ dovetail_section_kw(a))

dovetail_section(a) ==
    SectionCall(a, [straighten_dovetail |-> FALSE] @@ dovetail_section_kw(a))

\* the straight section above the dovetail (vertical_offset < 0)
top_straight_section(a) ==
    SectionCall(a,
        [floor_z |-> dovetail_top_z(a),
         floor_taper_distance |-> 0,
         floor_scarf_offset |-> scarf_offset(a) - vertical_scarf_offset(a),
         top_z |-> part_max_z(a.part),
         top_taper_distance |-> 0,
         top_scarf_offset |-> scarf_offset(a),
         tail_angle_offset |-> a.tail_angle_offset,
         length_ratio |-> a.length_ratio,
         depth_ratio |-> a.depth_ratio,
         straighten_dovetail |-> TRUE])

ErrRatios == "ValueError: the combined length_ratio and depth_ratio must be not exceed 1"

\* the defaults of subpart_outline for the parameters a call leaves out
SubpartOutlineDefaults ==
    [linear_offset |-> 0, tail_angle_offset |-> 15,
     length_ratio |-> <<1, 3>>, depth_ratio |-> <<1, 6>>]

\* the default of snugtail_subpart_outline for depth_ratio, 0.15
SnugtailOutlineDefaults == [depth_ratio |-> <<3, 20>>]

\* length_ratio + depth_ratio > 1, on fractions <<numerator, denominator>>
ratio_sum_exceeds_one(l, d) == l[1] * d[2] + d[1] * l[2] > l[2] * d[2]

\* one call of subpart_outline made by subpart_section for the section
\* call s: the keyword arguments of the call and the defaults for the rest
subpart_section_outline_call(s, taper_distance, outline_scarf_offset) ==
    [start |-> s.start, end |-> s.end, max_dimension |-> s.max_dimension,
     section |-> s.section, style |-> s.style, tolerance |-> s.tolerance,
     taper_distance |-> taper_distance, slot_count |-> s.slot_count,
     depth |-> s.depth, scarf_offset |-> outline_scarf_offset,
     straighten_dovetail |-> s.straighten_dovetail]
    @@ SubpartOutlineDefaults

\* the function that draws the split line and the values it receives for
\* the four parameters (None for a parameter it does not have)
SplitLine(function, linear_offset, tail_angle_offset, length_ratio, depth_ratio) ==
    [function |-> function, linear_offset |-> linear_offset, tail_angle_offset |-> tail_angle_offset, length_ratio |-> length_ratio, depth_ratio |-> depth_ratio]

\* snugtail_subpart_outline called with the keyword arguments o
snugtail_subpart_outline(o) ==
    [raised |-> IF ratio_sum_exceeds_one(o.length_ratio, o.depth_ratio) /\ ~o.straighten_dovetail
                THEN ErrRatios ELSE NoError,
     split |-> SplitLine("snugtail_subpart_outline", None, Some(o.tail_angle_offset),
                         Some(o.length_ratio), Some(o.depth_ratio))]

\* dovetail_subpart_outline called with the keyword arguments o
dovetail_subpart_outline(o) ==
    [raised |-> NoError,
     split |-> IF o.straighten_dovetail
               THEN SplitLine("Line", None, None, None, None)
               ELSE IF o.style = "T_SLOT"
               THEN SplitLine("tslot_split_line", None, None, None, None)
               ELSE SplitLine("dovetail_split_line", Some(o.linear_offset), Some(o.tail_angle_offset),
                              Some(o.length_ratio), Some(o.depth_ratio))]

\* subpart_outline called with the keyword arguments o: the SNUGTAIL
\* branch passes neither linear_offset nor depth_ratio
subpart_outline(o) ==
    IF o.style = "SNUGTAIL"
    THEN snugtail_subpart_outline(
            [tail_angle_offset |-> o.tail_angle_offset, length_ratio |-> o.length_ratio,
             straighten_dovetail |-> o.straighten_dovetail] @@ SnugtailOutlineDefaults)
    ELSE dovetail_subpart_outline(o)

\* subpart_section called with the keyword arguments s: the outline of the
\* floor sketch and the outline of the top sketch
subpart_section(s) ==
    [floor |-> subpart_outline(subpart_section_outline_call(s, s.floor_taper_distance, s.floor_scarf_offset)),
     top |-> subpart_outline(subpart_section_outline_call(s, s.top_taper_distance, s.top_scarf_offset))]

\* the calls of subpart_section made inside the BuildPart, in order
dovetail_subpart_sections(a) ==
    (IF a.vertical_offset > 0 THEN <<bottom_straight_section(a)>> ELSE <<>>)
    \o <<dovetail_section(a)>>
    \o (IF a.vertical_offset < 0 THEN <<top_straight_section(a)>> ELSE <<>>)

\* the outlines drawn by the calls of subpart_section, in order
dovetail_subpart_outlines(a) ==
    [i \in 1..Len(dovetail_subpart_sections(a)) |-> subpart_section(dovetail_subpart_sections(a)[i])]

\* the exception of the first outline that raises, if any
dovetail_subpart_outline_error(outlines) ==
    IF \E i \in 1..Len(outlines) : outlines[i].floor.raised # NoError \/ outlines[i].top.raised # NoError
    THEN ErrRatios ELSE NoError

dovetail_subpart(a) ==
    LET err == dovetail_subpart_guards(a)
        outlines == dovetail_subpart_outlines(a)
        outline_err == dovetail_subpart_outline_error(outlines) IN
    IF err # NoError \/ outline_err # NoError
    THEN [raised |-> IF err # NoError THEN err ELSE outline_err,
          sections |-> <<>>, outlines |-> <<>>, intersect_with |-> <<>>,
          divots |-> FALSE]
    ELSE [raised |-> NoError,
          sections |-> dovetail_subpart_sections(a),
          outlines |-> outlines,
          intersect_with |-> <<a.part>>,
          divots |-> (a.click_fit_radius # 0)]

DovetailArgs ==
    [part : Parts, start : Points, end : Points,
     section : DovetailParts, style : DovetailStyles,
     linear_offset : {0}, tolerance : {1},
     vertical_tolerance : 0..MaxVTol,
     slot_count : {1}, depth : {2}, tail_angle_offset : {15},
     taper_angle : Angles,
     length_ratio : {<<1, 3>>}, depth_ratio : {<<1, 6>>},
     scarf_angle : {0, 45},
     vertical_offset : (-MaxOffset)..MaxOffset,
     click_fit_radius : {0, 1}]

\* calls on one part along one line that vary the parameters of the
\* split line
DovetailSplitLineArgs ==
    [part : {[min_z |-> 0, size_x |-> 10, size_y |-> 50, size_z |-> 2]},
     start : {Point(0, 0)}, end : {Point(MaxCoord, 0)},
     section : DovetailParts, style : DovetailStyles,
     linear_offset : {0, 1}, tolerance : {1},
     vertical_tolerance : {0},
     slot_count : {1}, depth : {2}, tail_angle_offset : {15, 20},
     taper_angle : {0},
     length_ratio : {<<1, 3>>, <<4, 5>>}, depth_ratio : {<<1, 6>>, <<2, 5>>},
     scarf_angle : {0},
     vertical_offset : {-1, 0, 1},
     click_fit_radius : {0}]

DovetailCallArgs == DovetailArgs \cup DovetailSplitLineArgs

(***************************************************************************)
(* basic_shapes.py: screw_cut                                              *)
(***************************************************************************)
ErrHeadRadius == "head_radius must be larger than shaft_radius"

screw_cut_guard_strict(a) == a.head_radius < a.shaft_radius

screw_cut_guard(a) == a.head_radius <= a.shaft_radius

\* the five sketches of the loft, in the order they are created: the
\* offset of the sketch plane and the radius of the circle drawn on it
screw_cut_profiles_no_shaft_radius(a) ==
    << [z |-> -a.bottom_clearance, radius |-> a.head_radius],
       [z |-> 0, radius |-> a.head_radius],
       [z |-> a.head_sink, radius |-> a.head_radius],
       [z |-> a.head_sink + a.head_radius, radius |-> a.shaft_radius],
       [z |-> a.shaft_length, radius |-> a.shaft_radius] >>

screw_cut_profiles(a) ==
    << [z |-> -a.bottom_clearance, radius |-> a.head_radius],
       [z |-> 0, radius |-> a.head_radius],
       [z |-> a.head_sink, radius |-> a.head_radius],
       [z |-> a.head_sink + a.head_radius - a.shaft_radius,
        radius |-> a.shaft_radius],
       [z |-> a.shaft_length, radius |-> a.shaft_radius] >>

SeqMin(f) == CHOOSE v \in {f[i] : i \in DOMAIN f} :
                \A i \in DOMAIN f : v <= f[i]

SeqMax(f) == CHOOSE v \in {f[i] : i \in DOMAIN f} :
                \A i \in DOMAIN f : v >= f[i]

\* loft(ruled=True) over circles centred on the Z axis: the solid reaches
\* from the lowest to the highest sketch plane and is as wide as the
\* widest circle
loft_bounding_box(profiles) ==
    LET zs == [i \in DOMAIN profiles |-> profiles[i].z]
        rs == [i \in DOMAIN profiles |-> profiles[i].radius] IN
    [min_x |-> -SeqMax(rs), max_x |-> SeqMax(rs),
     min_y |-> -SeqMax(rs), max_y |-> SeqMax(rs),
     min_z |-> SeqMin(zs), max_z |-> SeqMax(zs)]

NoBox == [min_x |-> 0, max_x |-> 0, min_y |-> 0, max_y |-> 0,
          min_z |-> 0, max_z |-> 0]

size_X(box) == box.max_x - box.min_x

size_Y(box) == box.max_y - box.min_y

size_Z(box) == box.max_z - box.min_z

screw_cut(a) ==
    IF screw_cut_guard(a)
    THEN [raised |-> ErrHeadRadius, profiles |-> <<>>, built |-> FALSE,
          bounding_box |-> NoBox]
    ELSE [raised |-> NoError, profiles |-> screw_cut_profiles(a),
          built |-> TRUE,
          bounding_box |-> loft_bounding_box(screw_cut_profiles(a))]

ScrewCutArgs ==
    [head_radius : 1..MaxLen, head_sink : 0..MaxLen,
     shaft_radius : 1..MaxLen, shaft_length : 1..(MaxLen + 1),
     bottom_clearance : 0..MaxLen]

(***************************************************************************)
(* antichamfer.py: anti_chamfer                                            *)
(*                                                                         *)
(* An optional argument is the empty sequence (None) or <<value>>.  faces  *)
(* is a single Face, [single |-> TRUE, face |-> f], or an iterable of      *)
(* faces, [single |-> FALSE, list |-> <<f, ...>>].                         *)
(***************************************************************************)
\* length2 after "if length2 is None: length2 = length"
anti_chamfer_length2(length, length2) ==
    IF length2 = None THEN length ELSE length2[1]

anti_chamfer_guard_both_zero(length, length2) ==
    length = 0 /\ anti_chamfer_length2(length, length2) = 0

anti_chamfer_guard(length, length2) ==
    length = 0 \/ anti_chamfer_length2(length, length2) = 0

anti_chamfer_faces(faces) ==
    IF faces.single THEN <<faces.face>> ELSE faces.list

\* one extrude per face; the taper is -degrees(atan(length2 / length)),
\* kept as the pair of its operands
anti_chamfer_extrusions(faces, length, length2) ==
    LET fs == anti_chamfer_faces(faces) IN
    [i \in 1..Len(fs) |->
        [face |-> fs[i], offset |-> -length, amount |-> length,
         taper_atan |-> <<anti_chamfer_length2(length, length2), length>>]]

anti_chamfer(part, faces, length, length2) ==
    IF anti_chamfer_guard(length, length2)
    THEN [returned_part |-> part, is_argument |-> TRUE, extrusions |-> <<>>]
    ELSE [returned_part |-> <<"antichamfer", part>>, is_argument |-> FALSE,
          extrusions |-> anti_chamfer_extrusions(faces, length, length2)]

FaceNames == {"top", "bottom", "side"}

FaceLists == UNION {[1..n -> FaceNames] : n \in 0..MaxFaces}

FacesArgs ==
    {[single |-> TRUE, face |-> f] : f \in FaceNames}
    \cup {[single |-> FALSE, list |-> l] : l \in FaceLists}

AntiChamferLengths == (-1)..MaxLen

AntiChamferArgs ==
    [part : {"box", "bracket"}, faces : FacesArgs,
     length : AntiChamferLengths,
     length2 : {None} \cup {Some(v) : v \in AntiChamferLengths}]

(***************************************************************************)
(* basic_shapes.py: teardrop_sketch and teardrop_cylinder                  *)
(***************************************************************************)
Aligns == {"MIN", "CENTER", "MAX"}

ErrZeroDivision == "ZeroDivisionError: division by zero"

ErrMathDomain == "ValueError: math domain error"

\* x = radius * sqrt(1 - radius**2 / peak_distance**2) and
\* y = radius**2 / peak_distance: the division raises for peak_distance = 0
\* and sqrt raises for a negative operand
teardrop_sketch_raises(radius, peak_distance) ==
    IF peak_distance = 0 THEN ErrZeroDivision
    ELSE IF radius * radius > peak_distance * peak_distance THEN ErrMathDomain
    ELSE NoError

\* the outline before the move: two lines from the tangent points (-x, -y)
\* and (x, -y) to the peak (0, -peak_distance) and the long arc of the
\* circle of the given radius around the origin between the tangent points;
\* the tangent points lie below the centre (y > 0), so the arc passes
\* through (radius, 0), (0, radius) and (-radius, 0)
teardrop_outline_bounding_box_circle(radius, peak_distance) ==
    [min_x |-> -radius, max_x |-> radius,
     min_y |-> -radius, max_y |-> radius,
     min_z |-> 0, max_z |-> 0]

teardrop_outline_bounding_box(radius, peak_distance) ==
    [min_x |-> -radius, max_x |-> radius,
     min_y |-> -peak_distance, max_y |-> radius,
     min_z |-> 0, max_z |-> 0]

teardrop_movex(radius, align) ==
    IF align[1] = "MAX" THEN -radius
    ELSE IF align[1] = "MIN" THEN radius
    ELSE 0

teardrop_movey(radius, peak_distance, align) ==
    (-((peak_distance - radius) \div 2))
    + (IF align[2] = "MAX" THEN -peak_distance
       ELSE IF align[2] = "MIN" THEN peak_distance
       ELSE 0)

\* Shape.move(Location((dx, dy, dz)))
move(box, dx, dy, dz) ==
    [min_x |-> box.min_x + dx, max_x |-> box.max_x + dx,
     min_y |-> box.min_y + dy, max_y |-> box.max_y + dy,
     min_z |-> box.min_z + dz, max_z |-> box.max_z + dz]

teardrop_sketch(radius, peak_distance, align) ==
    LET err == teardrop_sketch_raises(radius, peak_distance) IN
    IF err # NoError
    THEN [raised |-> err, bounding_box |-> NoBox]
    ELSE [raised |-> NoError,
          bounding_box |->
            move(teardrop_outline_bounding_box(radius, peak_distance),
                 teardrop_movex(radius, align),
                 teardrop_movey(radius, peak_distance, align), 0)]

\* extrude(amount=height) of a sketch on Plane.XY
extrude(box, height) ==
    [box EXCEPT !.min_z = Min2(0, height), !.max_z = Max2(0, height)]

teardrop_cylinder_movez(height, align) ==
    IF align[3] = "MAX" THEN -height
    ELSE IF align[3] = "CENTER" THEN -(height \div 2)
    ELSE 0

\* rotation is (0, 0, 0) in every call of the model: the three rotate
\* calls leave the part where it is
teardrop_cylinder(radius, peak_distance, height, rotation, align) ==
    LET sketch == teardrop_sketch(radius, peak_distance, align) IN
    IF sketch.raised # NoError
    THEN [raised |-> sketch.raised, bounding_box |-> NoBox,
          call |-> <<radius, peak_distance, height, rotation, align>>]
    ELSE [raised |-> NoError,
          bounding_box |->
            move(extrude(sketch.bounding_box, height), 0, 0,
                 teardrop_cylinder_movez(height, align)),
          call |-> <<radius, peak_distance, height, rotation, align>>]

TeardropRadii == {2 * k : k \in 1..MaxHalfRadius}

TeardropPeaks == {2 * k : k \in 0..MaxHalfPeak}

TeardropSketchArgs ==
    [radius : TeardropRadii, peak_distance : TeardropPeaks,
     align : Aligns \X Aligns]

TeardropCylinderArgs ==
    [radius : TeardropRadii, peak_distance : TeardropPeaks,
     height : {2 * k : k \in 1..MaxHalfCylinderHeight},
     rotation : {<<0, 0, 0>>},
     align : Aligns \X Aligns \X Aligns]

(***************************************************************************)
(* bolt_fittings.py: teardrop_bolt_cut_sinkhole and bolt_cut_sinkhole      *)
(*                                                                         *)
(* teardrop_ratio is given in tenths (10 is the ratio 1.0, 11 the default  *)
(* 1.1) and the radii are multiples of 20, so that radius * teardrop_ratio *)
(* is an even integer.                                                     *)
(***************************************************************************)
DefaultTeardropRatio == 11

TopFace == "faces().sort_by(Axis.Z)[-1]"

times_ratio(radius, teardrop_ratio) == (radius * teardrop_ratio) \div 10

BoltRadii == {20 * k : k \in 1..MaxHalfRadius}

TeardropRatios == {9, 10, 11, 12}

\* The volume of a solid is measured in unit cells: the points of the
\* integer lattice inside each cross-section, in the frame of the outline
\* (a move does not change a volume), for each unit of height.
\*
\* the outline of teardrop_sketch for a radius and a peak distance of
\* peak10 / 10: the disc of the arc, and the wedge between the two lines
\* from the tangent points (y = -radius^2 / peak) to the peak (0, -peak),
\* which is empty when the peak is on the circle
teardrop_inside_disc_only(x, y, radius, peak10) == x * x + y * y <= radius * radius

teardrop_inside(x, y, radius, peak10) ==
    \/ x * x + y * y <= radius * radius
    \/ /\ peak10 > 10 * radius
       /\ 10 * y >= -peak10
       /\ y * peak10 <= -10 * radius * radius
       /\ x * x * (peak10 * peak10 - 100 * radius * radius) <= radius * radius * (10 * y + peak10) * (10 * y + peak10)

teardrop_cells(radius, peak10) ==
    Cardinality({c \in ((-radius)..radius) \X ((-(peak10 \div 10))..radius) : teardrop_inside(c[1], c[2], radius, peak10)})

\* the cross-sections of the model: the bolt radii, and the bolt radii
\* widened by the anti-chamfer, for the ratios that do not raise
SectionRadii == {r + c : r \in BoltRadii, c \in 0..MaxChamfer}

SectionCells == [k \in SectionRadii \X {t \in TeardropRatios : t >= 10} |-> teardrop_cells(k[1], k[1] * k[2])] @@ <<>>

\* the cells the anti-chamfer adds around the top face: the extrusion
\* starts length below the face and widens by 1 for each unit of height
\* (taper -45 degrees, length2 = length)
RECURSIVE anti_chamfer_cells(_, _, _)
anti_chamfer_cells(radius, length, teardrop_ratio) ==
    IF length <= 0 THEN 0
    ELSE (SectionCells[<<radius + length, teardrop_ratio>>] - SectionCells[<<radius, teardrop_ratio>>])
         + anti_chamfer_cells(radius, length - 1, teardrop_ratio)

\* the volume of the part: the shaft, the head, the extrusion of the top
\* face and the anti-chamfer around the top face
sinkhole_volume(a, top, teardrop_ratio) ==
    SectionCells[<<a.shaft_radius, teardrop_ratio>>] * a.shaft_depth
    + SectionCells[<<a.head_radius, teardrop_ratio>>] * a.head_depth
    + (IF a.extension_distance > 0 THEN SectionCells[<<top.radius, teardrop_ratio>>] * a.extension_distance ELSE 0)
    + anti_chamfer_cells(top.radius, a.chamfer_radius, teardrop_ratio)

\* the planar end faces of the shaft and of the head, by the Z of their
\* centre, the radius of their outline and the cylinder they close; the
\* side faces have their centres strictly between these
sinkhole_end_faces(a, shaft, head) ==
    {[z |-> shaft.bounding_box.min_z, radius |-> a.shaft_radius, of |-> "shaft"],
     [z |-> head.bounding_box.max_z, radius |-> a.head_radius, of |-> "head"]}

\* sinkhole.faces().sort_by(Axis.Z)[-1]
sinkhole_top_face(a, shaft, head) ==
    CHOOSE f \in sinkhole_end_faces(a, shaft, head) :
        \A g \in sinkhole_end_faces(a, shaft, head) : g.z <= f.z

\* the Z size of the part: the shaft and the head stacked, and the
\* extrusion of the top face
sinkhole_size_z(a, shaft, head) ==
    (head.bounding_box.max_z - shaft.bounding_box.min_z)
    + (IF a.extension_distance > 0 THEN a.extension_distance ELSE 0)

\* the construction steps inside and after the BuildPart, in order
teardrop_bolt_cut_sinkhole(a, teardrop_ratio) ==
    LET shaft == teardrop_cylinder(a.shaft_radius,
                    times_ratio(a.shaft_radius, teardrop_ratio),
                    a.shaft_depth, <<0, 0, 0>>, <<"CENTER", "CENTER", "MAX">>)
        head == teardrop_cylinder(a.head_radius,
                    times_ratio(a.head_radius, teardrop_ratio),
                    a.head_depth, <<0, 0, 0>>, <<"CENTER", "CENTER", "MIN">>)
        extension ==
            IF a.extension_distance > 0
            THEN <<[step |-> "extrude", face |-> TopFace,
                    extruded |-> sinkhole_top_face(a, shaft, head),
                    amount |-> a.extension_distance]>>
            ELSE <<>>
    IN
    IF shaft.raised # NoError
    THEN [raised |-> shaft.raised, steps |-> <<>>, size_z |-> 0, volume |-> 0]
    ELSE IF head.raised # NoError
    THEN [raised |-> head.raised, steps |-> <<>>, size_z |-> 0, volume |-> 0]
    ELSE [raised |-> NoError,
          size_z |-> sinkhole_size_z(a, shaft, head),
          volume |-> sinkhole_volume(a, sinkhole_top_face(a, shaft, head), teardrop_ratio),
          steps |->
            <<[step |-> "BuildPart", location_z |-> a.shaft_depth],
              [step |-> "add", object |-> shaft],
              [step |-> "add", object |-> head]>>
            \o extension
            \o <<[step |-> "anti_chamfer",
                  outcome |-> anti_chamfer("sinkhole.part",
                                [single |-> FALSE, list |-> <<TopFace>>],
                                a.chamfer_radius, None)]>>]

bolt_cut_sinkhole_default_ratio(a) ==
    teardrop_bolt_cut_sinkhole(a, DefaultTeardropRatio)

bolt_cut_sinkhole(a) == teardrop_bolt_cut_sinkhole(a, 10)

BoltCutArgs ==
    [shaft_radius : BoltRadii, shaft_depth : 1..MaxDepth,
     head_radius : BoltRadii, head_depth : 1..MaxDepth,
     chamfer_radius : 0..MaxChamfer, extension_distance : (-1)..MaxExtension]

(***************************************************************************)
(* ball_socket.py: ball_socket                                             *)
(*                                                                         *)
(* ball_radius is an even integer, so that ball_radius * 1.5 and           *)
(* ball_radius / 2 are integers.  The horizontal extent of the result is   *)
(* kept as the square of its bounding box size in X (the same in Y, the    *)
(* part being symmetric under the quarter turn of PolarLocations(0, 4)).   *)
(***************************************************************************)
ErrKernel == "the kernel rejects a radius that is not positive"

\* Cylinder(radius=ball_radius + wall_thickness, height=ball_radius * 2,
\* align MIN): the outer shell, from z = 0 to z = 2 * ball_radius
outer_radius(a) == a.ball_radius + a.wall_thickness

socket_height(a) == a.ball_radius * 2

\* the cylinder cut from the top and the sphere of the bowl
cut_radius(a) == a.ball_radius + a.tolerance

\* the flange: a ring added back at the top, wall_thickness high
flange_radius_from_wall(a) == a.ball_radius + a.wall_thickness + a.tolerance

flange_radius(a) == a.ball_radius + a.tolerance

\* 100 * (ball_radius - wall_thickness * 0.66 + tolerance)
flange_inner_radius_x100(a) ==
    100 * a.ball_radius - 66 * a.wall_thickness + 100 * a.tolerance

\* the flex cuts: four boxes ball_radius wide and 2 * (ball_radius +
\* wall_thickness) long from the plane at ball_radius * 1.5 -
\* wall_thickness up to the top, and four horizontal cylinders of radius
\* ball_radius / 2 and the same length centred on that plane
flexcut_plane_z(a) == (a.ball_radius * 3) \div 2 - a.wall_thickness

flexcut_half_width(a) == a.ball_radius \div 2

flexcut_reach(a) == ((a.ball_radius + a.wall_thickness) * 2) \div 2

flexcut_box_top(a) ==
    flexcut_plane_z(a) + a.ball_radius \div 2 + a.wall_thickness

ball_socket_raises(a) ==
    IF outer_radius(a) <= 0 \/ cut_radius(a) <= 0
        \/ flange_inner_radius_x100(a) <= 0 \/ a.wall_thickness <= 0
    THEN ErrKernel
    ELSE NoError

\* 4 * h^2, h the half width in the cross direction of what the flex cuts
\* remove from the outer wall at its lowest point z = 0: nothing when the
\* horizontal cylinders end above z = 0, the chord of the cylinder at z = 0
\* when its axis is at or above z = 0, the full width of the box otherwise
flexcut_gap_sq4_at_base(a) ==
    LET z0 == flexcut_plane_z(a)
        h == flexcut_half_width(a) IN
    IF z0 >= h THEN 0
    ELSE IF z0 >= 0 THEN 4 * (h * h - z0 * z0)
    ELSE 4 * h * h

\* the square of the X (and Y) size of the bounding box.  The flange is
\* added after the cuts of the shell and the flex cuts reach only to
\* flexcut_reach: a flange wider than the shell stands out of it.
\* Otherwise the widest point left of the shell is on its wall next to the
\* gap the flex cuts leave at the base.
ball_socket_size_xy_squared(a) ==
    IF flange_radius(a) > outer_radius(a)
    THEN 4 * flange_radius(a) * flange_radius(a)
    ELSE 4 * outer_radius(a) * outer_radius(a) - flexcut_gap_sq4_at_base(a)

ball_socket(a) ==
    IF ball_socket_raises(a) # NoError
    THEN [raised |-> ball_socket_raises(a), size_xy_squared |-> 0,
          min_z |-> 0, max_z |-> 0, label |-> ""]
    ELSE [raised |-> NoError,
          size_xy_squared |-> ball_socket_size_xy_squared(a),
          min_z |-> 0, max_z |-> socket_height(a),
          label |-> "Ball Socket"]

BallSocketArgs ==
    [ball_radius : {2 * k : k \in 1..MaxHalfRadius},
     wall_thickness : 1..MaxWall,
     tolerance : (-1)..MaxTolerance]


(***************************************************************************)
(* point.py: Point methods.  Angles are drawn from the directions whose    *)
(* cosine and sine are exact fifths (the 3-4-5 triangle and the axes): the *)
(* angle named 37 is atan(3/4), 53 is atan(4/3), and so on around the      *)
(* circle.  Cos5 and Sin5 are 5 * cos and 5 * sin.  At 90 and 270 (0 and   *)
(* 180) the floating-point cosine (sine) is below the 1e-10 threshold of   *)
(* the source, which the table records as 0.                               *)
(***************************************************************************)
TrigAngles == {0, 37, 53, 90, 127, 143, 180, 217, 233, 270, 307, 323}

Cos5(angle) == CASE angle = 0 -> 5 [] angle = 37 -> 4 [] angle = 53 -> 3 [] angle = 90 -> 0 [] angle = 127 -> -3 [] angle = 143 -> -4 [] angle = 180 -> -5 [] angle = 217 -> -4 [] angle = 233 -> -3 [] angle = 270 -> 0 [] angle = 307 -> 3 [] angle = 323 -> 4

Sin5(angle) == CASE angle = 0 -> 0 [] angle = 37 -> 3 [] angle = 53 -> 4 [] angle = 90 -> 5 [] angle = 127 -> 4 [] angle = 143 -> 3 [] angle = 180 -> 0 [] angle = 217 -> -3 [] angle = 233 -> -4 [] angle = 270 -> -5 [] angle = 307 -> -4 [] angle = 323 -> -3

\* the axis argument: Axis.X, Axis.Y, or anything else
AxisValues == {"X", "Y", "Z", "invalid"}

ErrVerticalAngle == "Cannot specify x-distance for vertical angles (90 or 270 degrees)"

ErrHorizontalAngle == "Cannot specify y-distance for horizontal angles (0 or 180 degrees)"

ErrAxis == "axis must be Axis.X or Axis.Y"

\* axis=Axis.X is the default of the parameter
axis_or_default(axis) == IF axis = None THEN "X" ELSE axis[1]

related_point_by_axis_raises_else_y(angle, axis) ==
    IF axis = "X"
    THEN IF Abs(Cos5(angle)) = 0 THEN ErrVerticalAngle ELSE NoError
    ELSE IF Abs(Sin5(angle)) = 0 THEN ErrHorizontalAngle ELSE NoError

\* the guards, in the order of the source
related_point_by_axis_raises(angle, axis) ==
    IF axis = "X"
    THEN IF Abs(Cos5(angle)) = 0 THEN ErrVerticalAngle ELSE NoError
    ELSE IF axis = "Y"
    THEN IF Abs(Sin5(angle)) = 0 THEN ErrHorizontalAngle ELSE NoError
    ELSE ErrAxis

\* hypotenuse = abs(axis_distance / cos(angle_rad)), resp. sin
hypotenuse(axis_distance, trig5) == Abs(axis_distance * 5) \div Abs(trig5)

\* (1 if cos(angle_rad) > 0 else -1), resp. sin
sign_of(trig5) == IF trig5 > 0 THEN 1 ELSE -1

related_point_by_axis_x(self, angle, axis_distance) ==
    Point(self.x + axis_distance,
          self.y + ((hypotenuse(axis_distance, Cos5(angle)) * Sin5(angle)) \div 5) * sign_of(Cos5(angle)))

related_point_by_axis_y(self, angle, axis_distance) ==
    Point(self.x + ((hypotenuse(axis_distance, Sin5(angle)) * Cos5(angle)) \div 5) * sign_of(Sin5(angle)),
          self.y + axis_distance)

\* self.related_point_by_axis(angle, axis_distance, axis); self_after is
\* the receiver once the call has returned
related_point_by_axis(self, angle, axis_distance, axis) ==
    LET ax == axis_or_default(axis)
        err == related_point_by_axis_raises(angle, ax) IN
    [raised |-> err,
     point |-> IF err # NoError THEN None
               ELSE IF ax = "X"
               THEN Some(related_point_by_axis_x(self, angle, axis_distance))
               ELSE Some(related_point_by_axis_y(self, angle, axis_distance)),
     self_after |-> self]

\* axis distances are multiples of 12, so that the divisions by the
\* cosines and sines of the model are exact
AxisDistances == {12 * k : k \in -MaxAxisSteps..MaxAxisSteps}

RelatedPointArgs == [self : Points, angle : TrigAngles, axis_distance : AxisDistances, axis : {None} \cup {Some(ax) : ax \in AxisValues}]


(***************************************************************************)
(* point.py: Point.__init__, __getitem__, __iter__, X and Y.  A Python     *)
(* value handed to the constructor is a float, a list, a tuple or None; it *)
(* is modelled as its kind and the sequence of its items.                   *)
(***************************************************************************)
Float(v) == [kind |-> "float", value |-> <<v>>]

ListOf(items) == [kind |-> "list", value |-> items]

TupleOf(items) == [kind |-> "tuple", value |-> items]

PyNone == [kind |-> "None", value |-> <<>>]

ErrUnpack == "too many values to unpack (expected 2)"

ErrIndex == "Index out of range"

\* isinstance(x, list) and len(x) >= 2
Point__init__takes_sequence(x) == x.kind = "list" /\ Len(x.value) >= 2

\* Point(x, y): the fields of the constructed object
Point__init__(x, y) ==
    IF Point__init__takes_sequence(x)
    THEN IF Len(x.value) = 2
         THEN [raised |-> NoError, x |-> Float(x.value[1]), y |-> Float(x.value[2])]
         ELSE [raised |-> ErrUnpack, x |-> PyNone, y |-> PyNone]
    ELSE [raised |-> NoError, x |-> x, y |-> y]

Point__getitem__like_list(self, index) ==
    IF index = 0 \/ index = -2 THEN [raised |-> NoError, value |-> Some(self.x), self_after |-> self]
    ELSE IF index = 1 \/ index = -1 THEN [raised |-> NoError, value |-> Some(self.y), self_after |-> self]
    ELSE [raised |-> ErrIndex, value |-> None, self_after |-> self]

\* self[index]
Point__getitem__(self, index) ==
    IF index = 0 THEN [raised |-> NoError, value |-> Some(self.x), self_after |-> self]
    ELSE IF index = 1 THEN [raised |-> NoError, value |-> Some(self.y), self_after |-> self]
    ELSE [raised |-> ErrIndex, value |-> None, self_after |-> self]

\* iter(self): the values yielded, in order
Point__iter__(self) == [items |-> <<self.x, self.y>>, self_after |-> self]

X(self) == self.x

Y(self) == self.y

Coords == 0..MaxCoord

CoordSeqs(n) == [1..n -> Coords]

PointInitX == {Float(v) : v \in Coords} \cup {ListOf(s) : s \in CoordSeqs(1) \cup CoordSeqs(2) \cup CoordSeqs(3)} \cup {TupleOf(s) : s \in CoordSeqs(2)}

PointInitY == {PyNone} \cup {Float(v) : v \in Coords}

PointInitArgs == [x : PointInitX, y : PointInitY]

Indices == -MaxIndex..MaxIndex

PointGetitemArgs == [self : Points, index : Indices]


(***************************************************************************)
(* point.py: midpoint and shifted_midpoint.  The segments of the model     *)
(* have even coordinates and a length that is a multiple of 10, and the    *)
(* shifts are multiples of 5, so that the halves, the square root and the  *)
(* normalised direction times the shift are exact.                         *)
(***************************************************************************)
\* n ** 0.5 for the perfect squares of the model
RECURSIVE ISqrtBetween(_, _, _)
\* the largest r in lo..hi with r * r <= n, by bisection
ISqrtBetween(n, lo, hi) ==
    IF lo >= hi THEN lo
    ELSE LET mid == (lo + hi + 1) \div 2 IN
         IF mid * mid <= n THEN ISqrtBetween(n, mid, hi) ELSE ISqrtBetween(n, lo, mid - 1)

\* n ** 0.5 for a perfect square n (46340 is the largest root of a 32 bit
\* square); undefined for any other n
ISqrt(n) == CHOOSE r \in {ISqrtBetween(n, 0, Min2(n, 46340))} : r * r = n

midpoint(point1, point2) == Point((point1.x + point2.x) \div 2, (point1.y + point2.y) \div 2)

shifted_midpoint_towards_point1(point1, point2, shift) ==
    LET length == ISqrt((point1.x - point2.x) * (point1.x - point2.x) + (point1.y - point2.y) * (point1.y - point2.y)) IN
    IF length = 0 THEN [raised |-> ErrZeroDivision, point |-> None]
    ELSE [raised |-> NoError,
          point |-> Some(Point((point1.x + point2.x) \div 2 + ((point1.x - point2.x) * shift) \div length,
                               (point1.y + point2.y) \div 2 + ((point1.y - point2.y) * shift) \div length))]

\* direction_x / length * shift is computed as (direction_x * shift) /
\* length, the same rational number
shifted_midpoint(point1, point2, shift) ==
    LET mid_x == (point1.x + point2.x) \div 2
        mid_y == (point1.y + point2.y) \div 2
        direction_x == point2.x - point1.x
        direction_y == point2.y - point1.y
        length == ISqrt(direction_x * direction_x + direction_y * direction_y) IN
    IF length = 0 THEN [raised |-> ErrZeroDivision, point |-> None]
    ELSE [raised |-> NoError,
          point |-> Some(Point(mid_x + (direction_x * shift) \div length,
                               mid_y + (direction_y * shift) \div length))]

SegmentStarts == {Point(2 * x, 2 * y) : x \in 0..MaxCoord, y \in 0..1}

\* the ends of the segments from p: p itself, and the points at a distance
\* 10 * k from p in the directions of the model
SegmentEnds(p) == {p} \cup {Point(p.x + 2 * k * Cos5(a), p.y + 2 * k * Sin5(a)) : a \in TrigAngles, k \in 1..MaxSegment}

Shifts == {5 * k : k \in -MaxShiftSteps..MaxShiftSteps}

MidpointArgs == UNION {{[point1 |-> p, point2 |-> q] : q \in SegmentEnds(p)} : p \in SegmentStarts}

ShiftedMidpointArgs == UNION {{[point1 |-> p, point2 |-> q, shift |-> s] : q \in SegmentEnds(p), s \in Shifts} : p \in SegmentStarts}


(***************************************************************************)
(* basic_shapes.py: circular_intersection and distance_to_circle_edge      *)
(***************************************************************************)
ErrCoordinate == "ValueError: The x-coordinate cannot be greater than the radius."

\* the chained comparison 0 > coordinate > radius
circular_intersection_guard(radius, coordinate) == 0 > coordinate /\ coordinate > radius

\* sqrt(radius**2 - coordinate**2): math.sqrt raises ValueError on a
\* negative argument and otherwise returns the non-negative root, which is
\* recorded by its square
circular_intersection(radius, coordinate) ==
    LET squared == radius * radius - coordinate * coordinate IN
    IF circular_intersection_guard(radius, coordinate)
    THEN [raised |-> ErrCoordinate, value_squared |-> None]
    ELSE IF squared < 0
    THEN [raised |-> ErrMathDomain, value_squared |-> None]
    ELSE [raised |-> NoError, value_squared |-> Some(squared)]

\* the messages above are those of a ValueError
IsValueError(raised) == raised \in {ErrCoordinate, ErrMathDomain}

CircularIntersectionArgs == [radius : -MaxRadius..MaxRadius, coordinate : -(MaxRadius + 1)..(MaxRadius + 1)]


ErrDiscriminant == "ValueError: Error: discriminant calculated as < 0"

IsSquare(n) == \E r \in 0..n : r * r = n

\* b = 2 * (x1 * cos(theta) + y1 * sin(theta)), times 5
circle_edge_b5(point, angle) == 2 * (point.x * Cos5(angle) + point.y * Sin5(angle))

\* c = x1**2 + y1**2 - radius**2
circle_edge_c(radius, point) == point.x * point.x + point.y * point.y - radius * radius

\* discriminant = b**2 - 4 * a * c with a = 1, times 25
circle_edge_discriminant25(radius, point, angle) ==
    circle_edge_b5(point, angle) * circle_edge_b5(point, angle) - 100 * circle_edge_c(radius, point)

circle_edge_t_min(t1, t2) == Min2(t1, t2)

\* t = max(t1, t2)
circle_edge_t(t1, t2) == Max2(t1, t2)

\* distance_to_circle_edge(radius, point, angle); t10 is 10 * t:
\* t1 = (-b + sqrt(discriminant)) / 2 = (-b5 + sqrt(discriminant25)) / 10
distance_to_circle_edge(radius, point, angle) ==
    LET b5 == circle_edge_b5(point, angle)
        discriminant25 == circle_edge_discriminant25(radius, point, angle) IN
    IF discriminant25 < 0
    THEN [raised |-> ErrDiscriminant, t10 |-> None]
    ELSE [raised |-> NoError,
          t10 |-> Some(circle_edge_t((-b5) + ISqrt(discriminant25), (-b5) - ISqrt(discriminant25)))]

CircleCoords == {-7, -5, -4, -3, -1, 0, 1, 3, 4, 5, 7}

CircleRadii == {5 * k : k \in 1..MaxRadiusSteps}

\* the calls whose discriminant, if not negative, has an exact square root
CircleEdgeArgs == {a \in [radius : CircleRadii, point : {Point(x, y) : x \in CircleCoords, y \in CircleCoords}, angle : TrigAngles] : circle_edge_discriminant25(a.radius, a.point, a.angle) < 0 \/ IsSquare(circle_edge_discriminant25(a.radius, a.point, a.angle))}


(***************************************************************************)
(* twist_snap.py: the cylinders of twist_snap_connector and of             *)
(* twist_snap_socket.  wall_width is drawn from the multiples of 3, so     *)
(* that wall_width * 4 / 3 is exact.                                       *)
(***************************************************************************)
\* the first object of the BuildPart: Cylinder(radius=..., height=...)
twist_snap_connector(a) ==
    [base_cylinder |-> [radius |-> a.connector_diameter, height |-> a.wall_depth * 2]]

outer_socket_radius(a) == a.connector_diameter + (a.wall_width * 4) \div 3

\* the base cylinder, the socket wall on its top face and the bore
\* subtracted from it
twist_snap_socket(a) ==
    [base_cylinder |-> [radius |-> outer_socket_radius(a), height |-> a.wall_depth],
     wall_cylinder |-> [radius |-> outer_socket_radius(a), height |-> a.wall_depth * 2],
     bore |-> [radius |-> a.connector_diameter + a.tolerance, height |-> a.wall_depth * 2]]

TwistSnapArgs == [connector_diameter : 1..MaxLen, tolerance : 0..MaxTolerance, wall_width : {3 * k : k \in 1..MaxWall}, wall_depth : 1..MaxDepth]


(***************************************************************************)
(* point.py and dovetail.py: points in the plane of the cut.  The cuts of  *)
(* the model run in the directions of TrigAngles and every distance laid   *)
(* along a direction is a multiple of 5, so that distance * cos and        *)
(* distance * sin are integers.                                            *)
(***************************************************************************)
\* cos(radians(angle)) and sin(radians(angle)) times 5, for any angle that
\* is a member of TrigAngles modulo 360
CosDeg5(angle) == Cos5(angle % 360)

SinDeg5(angle) == Sin5(angle % 360)

\* self.related_point(angle, distance)
related_point(self, angle, distance) ==
    Point(self.x + (distance * CosDeg5(angle)) \div 5, self.y + (distance * SinDeg5(angle)) \div 5)

\* self.angle_to(point): degrees(atan2(dy, dx)) % 360
angle_to(self, point) ==
    IF self = point THEN 0
    ELSE CHOOSE angle \in TrigAngles :
            /\ (point.x - self.x) * Sin5(angle) = (point.y - self.y) * Cos5(angle)
            /\ (point.x - self.x) * Cos5(angle) + (point.y - self.y) * Sin5(angle) > 0

\* self.distance_to(point)
distance_to(self, point) ==
    ISqrt((self.x - point.x) * (self.x - point.x) + (self.y - point.y) * (self.y - point.y))

\* value * ratio for a ratio <<numerator, denominator>>
times_fraction(value, ratio) == (value * ratio[1]) \div ratio[2]

(***************************************************************************)
(* dovetail.py: dovetail_split_line                                        *)
(***************************************************************************)
split_dovetail_tolerance(a) ==
    IF a.section = "TAIL" THEN -(Abs(a.tolerance \div 2)) ELSE Abs(a.tolerance \div 2)

tail_angle_tolerance_adjustment(a) == split_dovetail_tolerance(a) * Tan(a.tail_angle_offset)

split_length(a) == distance_to(a.start, a.end)

tongue_length(a) == times_fraction(split_length(a), a.length_ratio) + split_dovetail_tolerance(a) * 2

tongue_depth(a) == times_fraction(split_length(a), a.depth_ratio)

tail_angle_extension(a) == tongue_depth(a) * Tan(a.tail_angle_offset)

\* the distances along the cut, from adjusted_start_point, of the four
\* corners of the tongue
tail_end_start_distance(a) ==
    split_length(a) \div 2 - tongue_length(a) \div 2 - tail_angle_tolerance_adjustment(a) + a.linear_offset + a.taper_distance

tail_end_distance_no_offset(a) ==
    split_length(a) \div 2 + tongue_length(a) \div 2 + tail_angle_tolerance_adjustment(a) - a.taper_distance

tail_end_distance(a) ==
    split_length(a) \div 2 + tongue_length(a) \div 2 + tail_angle_tolerance_adjustment(a) + a.linear_offset - a.taper_distance

tail_base_start_distance(a) ==
    split_length(a) \div 2 - tongue_length(a) \div 2 + tail_angle_extension(a) - tail_angle_tolerance_adjustment(a) + a.linear_offset + a.taper_distance \div 2

tail_base_resume_distance(a) ==
    split_length(a) \div 2 + tongue_length(a) \div 2 - tail_angle_extension(a) + tail_angle_tolerance_adjustment(a) + a.linear_offset - a.taper_distance \div 2

\* dovetail_split_line: the corners and the four FilletPolylines drawn
\* through them, in order
dovetail_split_line(a) ==
    LET base_angle == angle_to(a.start, a.end)
        adjusted_start_point == related_point(a.start, base_angle - 90, split_dovetail_tolerance(a))
        tip_depth == tongue_depth(a) - a.taper_distance \div 2
        tail_end_start == related_point(related_point(adjusted_start_point, base_angle, tail_end_start_distance(a)), base_angle - 90, tip_depth)
        tail_end == related_point(related_point(adjusted_start_point, base_angle, tail_end_distance(a)), base_angle - 90, tip_depth)
        tail_base_start == related_point(adjusted_start_point, base_angle, tail_base_start_distance(a))
        tail_base_resume == related_point(adjusted_start_point, base_angle, tail_base_resume_distance(a))
        adjusted_end_point == related_point(adjusted_start_point, base_angle, split_length(a)) IN
    [adjusted_start_point |-> adjusted_start_point,
     tail_base_start |-> tail_base_start,
     tail_end_start |-> tail_end_start,
     tail_end |-> tail_end,
     tail_base_resume |-> tail_base_resume,
     adjusted_end_point |-> adjusted_end_point,
     pieces |-> <<
        <<adjusted_start_point, tail_base_start, midpoint(tail_base_start, tail_end_start)>>,
        <<midpoint(tail_base_start, tail_end_start), tail_end_start, midpoint(tail_end_start, tail_end)>>,
        <<midpoint(tail_end_start, tail_end), tail_end, midpoint(tail_end, tail_base_resume)>>,
        <<midpoint(tail_end, tail_base_resume), tail_base_resume, adjusted_end_point>> >>]

\* the cuts of the model: from a start point, 120 * k long in a direction
\* of TrigAngles; with the distances of the model multiples of 10, every
\* corner has even coordinates and the midpoints are exact
CutStarts == {Point(0, 0), Point(10, 20)}

CutEnds(p) == {Point(p.x + 24 * k * Cos5(angle), p.y + 24 * k * Sin5(angle)) : angle \in TrigAngles, k \in 1..MaxCutSteps}

Cuts == UNION {{[start |-> p, end |-> q] : q \in CutEnds(p)} : p \in CutStarts}

DovetailSplitOptions == [section : DovetailParts, linear_offset : {-10, 0, 10}, tolerance : {0, 20}, tail_angle_offset : {0, 45}, taper_distance : {0, 20}, length_ratio : {<<1, 3>>, <<1, 2>>}, depth_ratio : {<<1, 6>>}]

DovetailSplitArgs == {c @@ o : c \in Cuts, o \in DovetailSplitOptions}


(***************************************************************************)
(* dovetail.py: tslot_split_line                                           *)
(***************************************************************************)
\* next_distance: the gap before, between and after the slots
tslot_next_distance_single_depth(a) ==
    (distance_to(a.start, a.end) - a.depth * a.slot_count) \div (a.slot_count + 1)

tslot_next_distance(a) ==
    (distance_to(a.start, a.end) - (a.depth * 2) * a.slot_count) \div (a.slot_count + 1)

\* one iteration of the loop from the running point last_point, with the
\* base_angle and next_distance computed before the loop: the running point
\* it starts from, root_start, root_end (the next running point) and the
\* eight FilletPolylines, in order
tslot_slot(a, base_angle, next_distance, last_point) ==
    LET dovetail_tolerance == split_dovetail_tolerance(a)
        root_start == related_point(last_point, base_angle, next_distance)
        trunk_start == related_point(root_start, base_angle, a.depth \div 2 + dovetail_tolerance + a.taper_distance)
        branch_start == related_point(trunk_start, base_angle + 90, a.depth \div 2 + dovetail_tolerance * 2 + a.taper_distance)
        mid_trunk_start == midpoint(trunk_start, branch_start)
        branch_start_inner == related_point(branch_start, base_angle, -(a.depth \div 2))
        branch_start_inner_mid == midpoint(branch_start_inner, branch_start)
        branch_start_outer == related_point(branch_start_inner, base_angle + 90, a.depth \div 2 - dovetail_tolerance * 2 - a.taper_distance * 2)
        branch_start_mid == midpoint(branch_start_inner, branch_start_outer)
        branch_end_inner == related_point(branch_start_inner, base_angle, a.depth * 2 - dovetail_tolerance * 2 - a.taper_distance * 2)
        branch_end_outer == related_point(branch_start_outer, base_angle, a.depth * 2 - dovetail_tolerance * 2 - a.taper_distance * 2)
        branch_mid == midpoint(branch_start_outer, branch_end_outer)
        branch_end_mid == midpoint(branch_end_inner, branch_end_outer)
        branch_end == related_point(branch_start, base_angle, a.depth - dovetail_tolerance * 2 - a.taper_distance * 2)
        branch_end_inner_mid == midpoint(branch_end_inner, branch_end)
        trunk_end == related_point(trunk_start, base_angle, a.depth - dovetail_tolerance * 2 - a.taper_distance * 2)
        mid_trunk_end == midpoint(trunk_end, branch_end)
        root_end == related_point(root_start, base_angle, a.depth * 2) IN
    [last_point |-> last_point,
     root_start |-> root_start,
     root_end |-> root_end,
     pieces |-> <<
        <<last_point, trunk_start, mid_trunk_start>>,
        <<mid_trunk_start, branch_start, branch_start_inner_mid>>,
        <<branch_start_inner_mid, branch_start_inner, branch_start_mid>>,
        <<branch_start_mid, branch_start_outer, branch_mid>>,
        <<branch_mid, branch_end_outer, branch_end_mid>>,
        <<branch_end_mid, branch_end_inner, branch_end_inner_mid>>,
        <<branch_end_inner_mid, branch_end, mid_trunk_end>>,
        <<mid_trunk_end, trunk_end, root_end>> >>]

RECURSIVE tslot_slots(_, _, _, _, _)
\* the iterations slot_index, ..., slot_count - 1 of the loop; each ends
\* with last_point = root_end
tslot_slots(a, base_angle, next_distance, last_point, slot_index) ==
    IF slot_index >= a.slot_count THEN <<>>
    ELSE <<tslot_slot(a, base_angle, next_distance, last_point)>>
         \o tslot_slots(a, base_angle, next_distance,
                related_point(related_point(last_point, base_angle, next_distance), base_angle, a.depth * 2),
                slot_index + 1)

RECURSIVE slot_pieces(_)
\* the FilletPolylines of the slots, in the order they are drawn
slot_pieces(slots) ==
    IF slots = <<>> THEN <<>> ELSE slots[1].pieces \o slot_pieces(Tail(slots))

\* the BuildLine of tslot_split_line for the values computed before it:
\* the slots, the running point after the loop and the pieces of the line
\* (the FilletPolylines and the closing Polyline)
tslot_outline(base_angle, next_distance, adjusted_start_point, adjusted_end_point, slots) ==
    [base_angle |-> base_angle,
     next_distance |-> next_distance,
     adjusted_start_point |-> adjusted_start_point,
     adjusted_end_point |-> adjusted_end_point,
     slots |-> slots,
     last_point |-> IF slots = <<>> THEN adjusted_start_point ELSE slots[Len(slots)].root_end,
     pieces |-> slot_pieces(slots)
                \o << <<IF slots = <<>> THEN adjusted_start_point ELSE slots[Len(slots)].root_end, adjusted_end_point>> >>]

\* the loop of tslot_split_line from adjusted_start_point
tslot_loop(a, base_angle, length, next_distance, adjusted_start_point) ==
    tslot_outline(base_angle, next_distance, adjusted_start_point,
                  related_point(adjusted_start_point, base_angle, length),
                  tslot_slots(a, base_angle, next_distance, adjusted_start_point, 0))

\* tslot_split_line with base_angle and length computed
tslot_split_line_along(a, base_angle, length) ==
    tslot_loop(a, base_angle, length, tslot_next_distance(a),
               related_point(a.start, base_angle - 90, split_dovetail_tolerance(a)))

tslot_split_line(a) ==
    tslot_split_line_along(a, angle_to(a.start, a.end), distance_to(a.start, a.end))

\* the cuts of the outlines: 40000 long from the origin in a direction of
\* TrigAngles; with every distance a multiple of 10 the corners have even
\* coordinates and the midpoints are exact
OutlineCuts == {[start |-> Point(0, 0), end |-> Point(8000 * Cos5(angle), 8000 * Sin5(angle))] : angle \in TrigAngles}

\* depths for which the gap is a whole number for every slot count
TSlotOptions == [section : DovetailParts, slot_count : 0..MaxSlotCount, depth : {1000, 4000}, tolerance : {0, 400}, taper_distance : {0, 40}]

TSlotArgs == {c @@ o : c \in OutlineCuts, o \in TSlotOptions}


(***************************************************************************)
(* dovetail.py: subpart_outline_boundary and snugtail_subpart_outline as   *)
(* chains of points.  A Line or Polyline is the sequence of its points, a  *)
(* FilletPolyline the sequence of the points it is drawn through.          *)
(***************************************************************************)
\* a point given by related_point in a direction that has no exact sine
\* and cosine (45 degrees off the cut), left unevaluated
polar_point(origin, angle, distance) == [origin |-> origin, angle |-> angle % 360, distance |-> distance]

direction_multiplier(o) == IF o.section = "TAIL" THEN 1 ELSE -1

\* toleranced_start_point and toleranced_end_point, computed alike by
\* subpart_outline_boundary and by both outline functions
toleranced_start_point(o) ==
    LET base_angle == angle_to(o.start, o.end) IN
    related_point(related_point(o.start, base_angle - 90, o.scarf_offset), base_angle - 90, split_dovetail_tolerance(o))

toleranced_end_point(o) ==
    LET base_angle == angle_to(o.start, o.end) IN
    related_point(related_point(o.end, base_angle - 90, o.scarf_offset), base_angle - 90, split_dovetail_tolerance(o))

\* the Polyline of subpart_outline_boundary
subpart_outline_boundary(o) ==
    LET base_angle == angle_to(o.start, o.end) IN
    <<toleranced_start_point(o),
      related_point(toleranced_start_point(o), base_angle + 180, o.max_dimension),
      polar_point(toleranced_start_point(o), base_angle - 225 * direction_multiplier(o), o.max_dimension),
      polar_point(toleranced_end_point(o), base_angle + 45 * direction_multiplier(o), o.max_dimension),
      related_point(toleranced_end_point(o), base_angle, o.max_dimension),
      toleranced_end_point(o)>>

\* the arguments of a call of dovetail_split_line made by an outline
\* function with the keyword arguments o
SplitLineCall(o, start, end, linear_offset) ==
    [start |-> start, end |-> end, section |-> o.section, linear_offset |-> linear_offset,
     tolerance |-> o.tolerance, tail_angle_offset |-> o.tail_angle_offset,
     taper_distance |-> o.taper_distance, length_ratio |-> o.length_ratio,
     depth_ratio |-> o.depth_ratio]

\* opposite_angle of snugtail_subpart_outline
opposite_angle(base_angle) == IF base_angle = 0 THEN 180 ELSE -base_angle

\* the BuildLine of snugtail_subpart_outline for an input that passes the
\* guard on the ratios: the angles, the corners of the tail line, the
\* boundary and the pieces of the cut line in the order they are drawn
snugtail_tail_line(o) ==
    LET base_angle == angle_to(o.start, o.end)
        dovetail_tolerance == split_dovetail_tolerance(o)
        cut_length == distance_to(o.start, o.end)
        tail_depth == times_fraction(cut_length, o.depth_ratio)
        cut_start == toleranced_start_point(o)
        cut_end == toleranced_end_point(o)
        fin_join == related_point(related_point(cut_start, base_angle, tail_depth \div 2 + dovetail_tolerance), base_angle - 90, tail_depth \div 2 + dovetail_tolerance)
        fin_depart == related_point(related_point(cut_end, base_angle - 180, tail_depth \div 2 + dovetail_tolerance), base_angle - 90, tail_depth \div 2 + dovetail_tolerance)
        start_fin == related_point(related_point(cut_start, base_angle, tail_depth \div 2 + dovetail_tolerance), base_angle + 90, dovetail_tolerance)
        end_fin == related_point(related_point(cut_end, base_angle - 180, tail_depth \div 2 + dovetail_tolerance), base_angle + 90, dovetail_tolerance)
        start_snugtail == related_point(start_fin, base_angle + 90, cut_length - tail_depth \div 2)
        end_snugtail == related_point(end_fin, base_angle + 90, cut_length - tail_depth \div 2)
        fin_connect == related_point(start_fin, base_angle + 90, cut_length - dovetail_tolerance)
        fin_disconnect == related_point(end_fin, base_angle + 90, cut_length - dovetail_tolerance)
        tail_line_distance == Abs(dovetail_tolerance) * (IF o.section = "TAIL" THEN 4 ELSE 6) - dovetail_tolerance * 2
        start_tail_line == related_point(fin_connect, base_angle, tail_line_distance)
        end_tail_line == related_point(fin_disconnect, opposite_angle(base_angle), tail_line_distance) IN
    [base_angle |-> base_angle,
     opposite_angle |-> opposite_angle(base_angle),
     fin_connect |-> fin_connect,
     fin_disconnect |-> fin_disconnect,
     tail_line_distance |-> tail_line_distance,
     start_tail_line |-> start_tail_line,
     end_tail_line |-> end_tail_line,
     boundary |-> subpart_outline_boundary(o),
     pieces |->
        << <<cut_start, fin_join, start_fin>> >>
        \o (IF o.straighten_dovetail THEN << <<start_fin, start_snugtail>> >>
            ELSE dovetail_split_line(SplitLineCall(o,
                    related_point(start_fin, base_angle, -dovetail_tolerance),
                    related_point(start_snugtail, base_angle, -dovetail_tolerance),
                    -(tail_depth \div 2))).pieces)
        \o << <<start_snugtail, fin_connect, start_tail_line>> >>
        \o (IF o.straighten_dovetail THEN << <<start_tail_line, end_tail_line>> >>
            ELSE dovetail_split_line(SplitLineCall(o,
                    related_point(start_tail_line, base_angle - 90, -dovetail_tolerance),
                    related_point(end_tail_line, base_angle - 90, -dovetail_tolerance),
                    0)).pieces)
        \o << <<end_tail_line, fin_disconnect, end_snugtail>> >>
        \o (IF o.straighten_dovetail THEN << <<end_snugtail, end_fin>> >>
            ELSE dovetail_split_line(SplitLineCall(o,
                    related_point(end_snugtail, base_angle, dovetail_tolerance),
                    related_point(end_fin, base_angle, dovetail_tolerance),
                    tail_depth \div 2)).pieces)
        \o << <<end_fin, fin_depart, cut_end>> >>]

\* snugtail_subpart_outline: the guard on the ratios, then the BuildLine
snugtail_subpart_outline_line(o) ==
    IF snugtail_subpart_outline(o).raised # NoError
    THEN [raised |-> snugtail_subpart_outline(o).raised, tail_line |-> None]
    ELSE [raised |-> NoError, tail_line |-> Some(snugtail_tail_line(o))]

AxisAngles == {0, 90, 180, 270}

\* the tolerances of the outlines: along an axis 400; in an oblique
\* direction 6800, 17 % of the cut, for which the line between the two
\* ends of the snugtail's tail line runs along the X axis and its corners
\* are whole numbers at a depth_ratio of 3 / 20
OutlineTolerances(cut) == IF angle_to(cut.start, cut.end) \in AxisAngles THEN {400} ELSE {6800}

SnugtailOptions == [max_dimension : {100000}, section : DovetailParts, tail_angle_offset : {0, 45}, taper_distance : {0, 40}, length_ratio : {<<1, 2>>}, depth_ratio : {<<3, 20>>}, scarf_offset : {0, 1000}, straighten_dovetail : BOOLEAN]

SnugtailArgs == UNION {{c @@ [tolerance |-> t] @@ o : t \in OutlineTolerances(c), o \in SnugtailOptions} : c \in OutlineCuts}


(***************************************************************************)
(* dovetail.py: dovetail_subpart_outline and subpart_outline as chains of  *)
(* points                                                                  *)
(***************************************************************************)
\* the BuildLine of dovetail_subpart_outline: the boundary and the pieces
\* of the cut line
dovetail_tail_line(o) ==
    LET base_angle == angle_to(o.start, o.end)
        adjusted_start_point == related_point(o.start, base_angle - 90, o.scarf_offset)
        adjusted_end_point == related_point(o.end, base_angle - 90, o.scarf_offset) IN
    [boundary |-> subpart_outline_boundary(o),
     pieces |->
        IF o.straighten_dovetail
        THEN << <<toleranced_start_point(o), toleranced_end_point(o)>> >>
        ELSE IF o.style = "T_SLOT"
        THEN tslot_split_line(
                [start |-> adjusted_start_point, end |-> adjusted_end_point,
                 section |-> o.section, slot_count |-> o.slot_count, depth |-> o.depth,
                 tolerance |-> o.tolerance, taper_distance |-> o.taper_distance]).pieces
        ELSE dovetail_split_line(
                SplitLineCall(o, adjusted_start_point, adjusted_end_point, o.linear_offset)).pieces]

\* subpart_outline: the SNUGTAIL branch passes neither linear_offset nor
\* depth_ratio, the other styles never raise
subpart_outline_line(o) ==
    IF o.style = "SNUGTAIL"
    THEN snugtail_subpart_outline_line(
            [start |-> o.start, end |-> o.end, max_dimension |-> o.max_dimension,
             section |-> o.section, tolerance |-> o.tolerance,
             tail_angle_offset |-> o.tail_angle_offset, taper_distance |-> o.taper_distance,
             length_ratio |-> o.length_ratio, scarf_offset |-> o.scarf_offset,
             straighten_dovetail |-> o.straighten_dovetail] @@ SnugtailOutlineDefaults)
    ELSE [raised |-> NoError, tail_line |-> Some(dovetail_tail_line(o))]

OutlineOptions == [max_dimension : {100000}, section : DovetailParts, style : DovetailStyles, linear_offset : {0}, tail_angle_offset : {0, 45}, taper_distance : {0, 40}, length_ratio : {<<1, 2>>}, depth_ratio : {<<1, 5>>}, scarf_offset : {0, 1000}, slot_count : {1, 2}, depth : {1000}, straighten_dovetail : BOOLEAN]

OutlineArgs == UNION {{c @@ [tolerance |-> t] @@ o : t \in OutlineTolerances(c), o \in OutlineOptions} : c \in OutlineCuts}


(***************************************************************************)
(* click_fit.py: divot, and the places where dovetail.py, slide_box.py and *)
(* high_top_slide_box.py combine a divot with a part.  Sizes are in        *)
(* hundredths of the radius.                                               *)
(***************************************************************************)
\* divot(radius, positive, extend_base): the radius of the base circle,
\* radius - tolerance, and of the top circle, radius * ratio
divot(radius, positive, extend_base) ==
    [radius |-> radius,
     positive |-> positive,
     extend_base |-> extend_base,
     base_radius |-> IF ~positive THEN radius * 100 ELSE radius * 100 - radius * 5,
     top_radius |-> radius * (IF positive THEN 50 ELSE 55)]

\* one divot combined with a part: the builder it is added in, the mode of
\* that builder, the rotation about X, and the mode with which the part
\* built of it is combined with the final part ("none" when the builder
\* belongs to the final part)
DivotUse(place, mode, rotate_x, combined, shape) ==
    [place |-> place, mode |-> mode, rotate_x |-> rotate_x, combined |-> combined, divot |-> shape]

topmode(a) ==
    IF (a.section = "TAIL") = (a.vertical_offset < 0) THEN "SUBTRACT" ELSE "ADD"

bottommode_positive_offset(a) ==
    IF (a.section = "SOCKET") = (a.vertical_offset > 0) THEN "ADD" ELSE "SUBTRACT"

bottommode(a) ==
    IF (a.section = "SOCKET") = (a.vertical_offset >= 0) THEN "ADD" ELSE "SUBTRACT"

\* traditional_subpart_divots: the top divot and the two bottom divots
traditional_subpart_divots(a) ==
    <<DivotUse("top_divot_center", topmode(a),
               90 * (IF a.vertical_offset < 0 THEN -1 ELSE 1) + (a.scarf_angle - a.taper_angle),
               "none", divot(a.click_fit_radius, topmode(a) = "ADD", TRUE)),
      DivotUse("start_side", bottommode(a),
               90 * (IF a.vertical_offset < 0 THEN 1 ELSE -1) + a.scarf_angle,
               "none", divot(a.click_fit_radius, bottommode(a) = "ADD", TRUE)),
      DivotUse("end_side", bottommode(a),
               90 * (IF a.vertical_offset < 0 THEN 1 ELSE -1) + a.scarf_angle,
               "none", divot(a.click_fit_radius, TRUE, TRUE))>>

\* snugtail_divots: one divot at each of the two PolarLocations
snugtail_divots(a) ==
    [i \in 1..2 |->
        DivotUse("PolarLocations", IF a.section = "SOCKET" THEN "SUBTRACT" ELSE "ADD",
                 0, "none", divot(a.click_fit_radius, TRUE, TRUE))]

subpart_divots(a) ==
    IF a.style = "TRADITIONAL" THEN traditional_subpart_divots(a) ELSE snugtail_divots(a)

\* slider_template: two divots at the GridLocations when divot_radius > 0
slider_template(divot_radius, cut_template, combined) ==
    IF divot_radius > 0
    THEN [i \in 1..2 |-> DivotUse("GridLocations", "ADD", 0, combined, divot(divot_radius, ~cut_template, TRUE))]
    ELSE <<>>

\* slide_box: the template cut out of the box (cut_template is left at its
\* default, True) and the template of slide_lid, intersected with the part
slide_box(a) ==
    slider_template(a.divot_radius, TRUE, "SUBTRACT")
    \o slider_template(a.divot_radius, FALSE, "INTERSECT")

\* _high_top_slide_box_top: two divots at each of the two PolarLocations
\* calls when divot_radius > 0
high_top_slide_box_top(divot_radius, cut_template, combined) ==
    IF divot_radius > 0
    THEN [i \in 1..4 |-> DivotUse("PolarLocations", "ADD", 0, combined, divot(divot_radius, ~cut_template, TRUE))]
    ELSE <<>>

\* high_top_slide_box: the lid, and the base, which subtracts a top built
\* with cut_template=True
high_top_slide_box(a) ==
    high_top_slide_box_top(a.divot_radius, FALSE, "none")
    \o high_top_slide_box_top(a.divot_radius, TRUE, "SUBTRACT")

SubpartDivotArgs == [section : DovetailParts, style : DovetailStyles, vertical_offset : (-MaxOffset)..MaxOffset, scarf_angle : {0, 45}, taper_angle : Angles, click_fit_radius : 1..MaxRadius]

SlideBoxArgs == [divot_radius : 0..MaxRadius]

(***************************************************************************)
(* The caller                                                              *)
(***************************************************************************)
Init ==
    /\ pc = "idle"
    /\ op = "none"
    /\ args = <<>>
    /\ result = <<>>

Call_dovetail_subpart ==
    /\ pc = "idle"
    /\ \E a \in DovetailCallArgs :
        /\ op' = "dovetail_subpart"
        /\ args' = a
        /\ result' = dovetail_subpart(a)
    /\ pc' = "returned"

Call_screw_cut ==
    /\ pc = "idle"
    /\ \E a \in ScrewCutArgs :
        /\ op' = "screw_cut"
        /\ args' = a
        /\ result' = screw_cut(a)
    /\ pc' = "returned"

Call_anti_chamfer ==
    /\ pc = "idle"
    /\ \E a \in AntiChamferArgs :
        /\ op' = "anti_chamfer"
        /\ args' = a
        /\ result' = anti_chamfer(a.part, a.faces, a.length, a.length2)
    /\ pc' = "returned"

Call_teardrop_sketch ==
    /\ pc = "idle"
    /\ \E a \in TeardropSketchArgs :
        /\ op' = "teardrop_sketch"
        /\ args' = a
        /\ result' = teardrop_sketch(a.radius, a.peak_distance, a.align)
    /\ pc' = "returned"

Call_teardrop_cylinder ==
    /\ pc = "idle"
    /\ \E a \in TeardropCylinderArgs :
        /\ op' = "teardrop_cylinder"
        /\ args' = a
        /\ result' = teardrop_cylinder(a.radius, a.peak_distance, a.height,
                                       a.rotation, a.align)
    /\ pc' = "returned"

Call_teardrop_bolt_cut_sinkhole ==
    /\ pc = "idle"
    /\ \E a \in BoltCutArgs, r \in TeardropRatios :
        /\ op' = "teardrop_bolt_cut_sinkhole"
        /\ args' = [a |-> a, teardrop_ratio |-> r]
        /\ result' = teardrop_bolt_cut_sinkhole(a, r)
    /\ pc' = "returned"

Call_bolt_cut_sinkhole ==
    /\ pc = "idle"
    /\ \E a \in BoltCutArgs :
        /\ op' = "bolt_cut_sinkhole"
        /\ args' = [a |-> a]
        /\ result' = bolt_cut_sinkhole(a)
    /\ pc' = "returned"

Call_ball_socket ==
    /\ pc = "idle"
    /\ \E a \in BallSocketArgs :
        /\ op' = "ball_socket"
        /\ args' = a
        /\ result' = ball_socket(a)
    /\ pc' = "returned"


Call_related_point_by_axis ==
    /\ pc = "idle"
    /\ \E a \in RelatedPointArgs :
        /\ args' = a
        /\ result' = related_point_by_axis(a.self, a.angle, a.axis_distance, a.axis)
    /\ op' = "related_point_by_axis"
    /\ pc' = "returned"


Call_Point__init__ ==
    /\ pc = "idle"
    /\ \E a \in PointInitArgs :
        /\ args' = a
        /\ result' = Point__init__(a.x, a.y)
    /\ op' = "Point.__init__"
    /\ pc' = "returned"

Call_Point__getitem__ ==
    /\ pc = "idle"
    /\ \E a \in PointGetitemArgs :
        /\ args' = a
        /\ result' = Point__getitem__(a.self, a.index)
    /\ op' = "Point.__getitem__"
    /\ pc' = "returned"

Call_Point__iter__ ==
    /\ pc = "idle"
    /\ \E p \in Points :
        /\ args' = [self |-> p]
        /\ result' = Point__iter__(p)
    /\ op' = "Point.__iter__"
    /\ pc' = "returned"


Call_midpoint ==
    /\ pc = "idle"
    /\ \E a \in MidpointArgs :
        /\ args' = a
        /\ result' = [point |-> midpoint(a.point1, a.point2)]
    /\ op' = "midpoint"
    /\ pc' = "returned"

Call_shifted_midpoint ==
    /\ pc = "idle"
    /\ \E a \in ShiftedMidpointArgs :
        /\ args' = a
        /\ result' = shifted_midpoint(a.point1, a.point2, a.shift)
    /\ op' = "shifted_midpoint"
    /\ pc' = "returned"


Call_circular_intersection ==
    /\ pc = "idle"
    /\ \E a \in CircularIntersectionArgs :
        /\ args' = a
        /\ result' = circular_intersection(a.radius, a.coordinate)
    /\ op' = "circular_intersection"
    /\ pc' = "returned"


Call_distance_to_circle_edge ==
    /\ pc = "idle"
    /\ \E a \in CircleEdgeArgs :
        /\ args' = a
        /\ result' = distance_to_circle_edge(a.radius, a.point, a.angle)
    /\ op' = "distance_to_circle_edge"
    /\ pc' = "returned"


Call_twist_snap_connector ==
    /\ pc = "idle"
    /\ \E a \in TwistSnapArgs :
        /\ args' = a
        /\ result' = twist_snap_connector(a)
    /\ op' = "twist_snap_connector"
    /\ pc' = "returned"

Call_twist_snap_socket ==
    /\ pc = "idle"
    /\ \E a \in TwistSnapArgs :
        /\ args' = a
        /\ result' = twist_snap_socket(a)
    /\ op' = "twist_snap_socket"
    /\ pc' = "returned"


Call_dovetail_split_line ==
    /\ pc = "idle"
    /\ \E a \in DovetailSplitArgs :
        /\ args' = a
        /\ result' = dovetail_split_line(a)
    /\ op' = "dovetail_split_line"
    /\ pc' = "returned"

Call_tslot_split_line ==
    /\ pc = "idle"
    /\ \E a \in TSlotArgs :
        /\ args' = a
        /\ result' = tslot_split_line(a)
    /\ op' = "tslot_split_line"
    /\ pc' = "returned"

Call_snugtail_subpart_outline ==
    /\ pc = "idle"
    /\ \E o \in SnugtailArgs :
        /\ args' = o
        /\ result' = snugtail_subpart_outline_line(o)
    /\ op' = "snugtail_subpart_outline"
    /\ pc' = "returned"

Call_subpart_outline ==
    /\ pc = "idle"
    /\ \E o \in OutlineArgs :
        /\ args' = o
        /\ result' = subpart_outline_line(o)
    /\ op' = "subpart_outline"
    /\ pc' = "returned"

Call_subpart_divots ==
    /\ pc = "idle"
    /\ \E a \in SubpartDivotArgs :
        /\ args' = a
        /\ result' = subpart_divots(a)
    /\ op' = "subpart_divots"
    /\ pc' = "returned"

Call_slide_box ==
    /\ pc = "idle"
    /\ \E a \in SlideBoxArgs :
        /\ args' = a
        /\ result' = slide_box(a)
    /\ op' = "slide_box"
    /\ pc' = "returned"

Call_high_top_slide_box ==
    /\ pc = "idle"
    /\ \E a \in SlideBoxArgs :
        /\ args' = a
        /\ result' = high_top_slide_box(a)
    /\ op' = "high_top_slide_box"
    /\ pc' = "returned"

Return ==
    /\ pc = "returned"
    /\ pc' = "idle"
    /\ op' = "none"
    /\ args' = <<>>
    /\ result' = <<>>

Next ==
    \/ Call_dovetail_subpart
    \/ Call_screw_cut
    \/ Call_anti_chamfer
    \/ Call_teardrop_sketch
    \/ Call_teardrop_cylinder
    \/ Call_teardrop_bolt_cut_sinkhole
    \/ Call_bolt_cut_sinkhole
    \/ Call_ball_socket
    \/ Call_related_point_by_axis
    \/ Call_Point__init__
    \/ Call_Point__getitem__
    \/ Call_Point__iter__
    \/ Call_midpoint
    \/ Call_shifted_midpoint
    \/ Call_circular_intersection
    \/ Call_distance_to_circle_edge
    \/ Call_twist_snap_connector
    \/ Call_twist_snap_socket
    \/ Call_dovetail_split_line
    \/ Call_tslot_split_line
    \/ Call_snugtail_subpart_outline
    \/ Call_subpart_outline
    \/ Call_subpart_divots
    \/ Call_slide_box
    \/ Call_high_top_slide_box
    \/ Return

Spec == Init /\ [][Next]_vars

(***************************************************************************)
(* Claims about dovetail_subpart                                           *)
(***************************************************************************)
Returned(name) == pc = "returned" /\ op = name

Accepted == Returned("dovetail_subpart") /\ result.raised = NoError

StraightenedCount(sections) ==
    Cardinality({i \in 1..Len(sections) : sections[i].straighten_dovetail})

\* C1: whenever start and end have the same coordinates, dovetail_subpart
\* raises the ValueError of the start/end check, whatever the part, section,
\* style and other parameters are (also when another guard would reject the
\* call), and no section is built.
C1_StartEndMatchRaisesFirst ==
    (Returned("dovetail_subpart")
        /\ args.start.x = args.end.x /\ args.start.y = args.end.y)
    => (result.raised = ErrStartEnd /\ result.sections = <<>>
        /\ result.intersect_with = <<>>)

\* a call with coinciding points that the vertical-offset and the taper
\* guards would reject as well
C1_Witness ==
    /\ Returned("dovetail_subpart")
    /\ args.start = args.end
    /\ Abs(args.vertical_offset) > args.part.size_z
    /\ args.taper_angle < 0 /\ args.vertical_offset < 0
    /\ result.raised = ErrStartEnd

\* C2: for start # end, dovetail_subpart raises the vertical-offset
\* ValueError whenever abs(vertical_offset) exceeds the Z size of the part's
\* bounding box, for positive and negative offsets, and builds no section.
C2_VerticalOffsetBeyondHeightRaises ==
    (Returned("dovetail_subpart")
        /\ args.start # args.end
        /\ Abs(args.vertical_offset) > args.part.size_z)
    => (result.raised = ErrVerticalOffset /\ result.sections = <<>>)

C2_Witness ==
    /\ Returned("dovetail_subpart")
    /\ args.start # args.end
    /\ args.vertical_offset < 0
    /\ -args.vertical_offset > args.part.size_z
    /\ result.raised = ErrVerticalOffset

\* C3: for start # end and abs(vertical_offset) within the part's height,
\* dovetail_subpart raises exactly when vertical_offset and taper_angle are
\* both strictly negative or both strictly positive; otherwise the call
\* proceeds and builds its sections.
C3_SameSignTaperRaisesExactly ==
    (Returned("dovetail_subpart")
        /\ args.start # args.end
        /\ Abs(args.vertical_offset) <= args.part.size_z)
    => /\ (result.raised # NoError)
          <=> \/ (args.vertical_offset < 0 /\ args.taper_angle < 0)
              \/ (args.vertical_offset > 0 /\ args.taper_angle > 0)
       /\ result.raised \in {NoError, ErrNegTaper, ErrPosTaper}
       /\ (result.raised = NoError) <=> (result.sections # <<>>)

\* a call with a zero taper and a negative offset proceeds
C3_Witness ==
    /\ Accepted
    /\ args.vertical_offset < 0 /\ args.taper_angle = 0
    /\ Len(result.sections) = 2

\* C7: in an accepted call the sign of vertical_offset selects the straight
\* cut: vertical_offset > 0 builds exactly one straightened section, the
\* first (lowest) of the stack, with floor_z the part's minimum Z;
\* vertical_offset < 0 builds exactly one straightened section, the last
\* (highest) of the stack, with top_z the part's maximum Z; vertical_offset
\* = 0 builds no straightened section and a single dovetail section from
\* the part's minimum Z to its maximum Z.
C7_OffsetSignSelectsStraightCut ==
    Accepted =>
        LET s == result.sections
            n == Len(s) IN
        /\ args.vertical_offset > 0 =>
            /\ n = 2 /\ StraightenedCount(s) = 1
            /\ s[1].straighten_dovetail
            /\ s[1].floor_z = args.part.min_z
            /\ \A i \in 1..n : s[i].floor_z >= s[1].floor_z
        /\ args.vertical_offset < 0 =>
            /\ n = 2 /\ StraightenedCount(s) = 1
            /\ s[n].straighten_dovetail
            /\ s[n].top_z = part_max_z(args.part)
        /\ args.vertical_offset = 0 =>
            /\ n = 1 /\ StraightenedCount(s) = 0
            /\ s[1].floor_z = args.part.min_z
            /\ s[1].top_z = part_max_z(args.part)

C7_Witness ==
    /\ Accepted
    /\ args.vertical_offset < 0
    /\ result.sections[2].straighten_dovetail
    /\ ~result.sections[1].straighten_dovetail
    /\ result.sections[2].top_z = part_max_z(args.part)

(***************************************************************************)
(* Claims about screw_cut and anti_chamfer                                 *)
(***************************************************************************)
\* C4: screw_cut raises ValueError whenever head_radius <= shaft_radius
\* (equality included), whatever head_sink, shaft_length and
\* bottom_clearance are, and builds a part only when head_radius >
\* shaft_radius.
C4_HeadRadiusMustExceedShaftRadius ==
    Returned("screw_cut") =>
        /\ (args.head_radius <= args.shaft_radius)
            => (result.raised = ErrHeadRadius /\ ~result.built
                /\ result.profiles = <<>>)
        /\ result.built <=> (args.head_radius > args.shaft_radius)
        /\ (args.head_radius > args.shaft_radius) => result.raised = NoError

C4_Witness ==
    /\ Returned("screw_cut")
    /\ args.head_radius = args.shaft_radius
    /\ result.raised = ErrHeadRadius

\* C5: whenever length is 0 or the effective length2 (length when length2
\* is None) is 0, anti_chamfer returns the part it was given and performs no
\* extrusion, for a single face and for any list of faces.
C5_ZeroLengthIsNoOp ==
    (Returned("anti_chamfer")
        /\ \/ args.length = 0
           \/ args.length2 = Some(0)
           \/ (args.length2 = None /\ args.length = 0))
    => /\ result.returned_part = args.part
       /\ result.is_argument
       /\ result.extrusions = <<>>

\* a non-zero length with a zero length2 on a list of two faces
C5_Witness ==
    /\ Returned("anti_chamfer")
    /\ args.length # 0 /\ args.length2 = Some(0)
    /\ ~args.faces.single /\ Len(args.faces.list) = 2
    /\ result.returned_part = args.part /\ result.extrusions = <<>>

NonDecreasingZ(profiles) ==
    \A i \in 1..(Len(profiles) - 1) : profiles[i].z <= profiles[i + 1].z

ScrewCutSpansShaft ==
    /\ Len(result.profiles) = 5
    /\ NonDecreasingZ(result.profiles)
    /\ result.bounding_box.min_z = -args.bottom_clearance
    /\ result.bounding_box.max_z = args.shaft_length
    /\ size_Z(result.bounding_box) = args.bottom_clearance + args.shaft_length
    /\ size_X(result.bounding_box) = 2 * args.head_radius
    /\ size_Y(result.bounding_box) = 2 * args.head_radius

\* C10 as stated: every input that passes the guard gives five profiles in
\* non-decreasing z order and a part spanning z = -bottom_clearance to z =
\* shaft_length, 2 * head_radius wide.
C10_Original_EveryAcceptedInputSpansShaft ==
    (Returned("screw_cut") /\ result.built) => ScrewCutSpansShaft

\* C10 amended: the same, for the inputs that pass the guard and have
\* bottom_clearance >= 0, head_sink >= 0 and head_sink + head_radius -
\* shaft_radius <= shaft_length.
C10_SpansShaftWhenConeFitsInShaft ==
    (Returned("screw_cut") /\ result.built
        /\ args.bottom_clearance >= 0 /\ args.head_sink >= 0
        /\ args.head_sink + args.head_radius - args.shaft_radius
            <= args.shaft_length)
    => ScrewCutSpansShaft

C10_Witness ==
    /\ Returned("screw_cut") /\ result.built
    /\ args.bottom_clearance > 0 /\ args.head_sink > 0
    /\ args.head_sink + args.head_radius - args.shaft_radius
        < args.shaft_length
    /\ ScrewCutSpansShaft

(***************************************************************************)
(* Claims about the teardrop shapes and the bolt holes                     *)
(***************************************************************************)
\* C6: for every shaft_radius, shaft_depth, head_radius, head_depth,
\* chamfer_radius and extension_distance, bolt_cut_sinkhole performs the
\* same sequence of construction steps with the same values as
\* teardrop_bolt_cut_sinkhole with teardrop_ratio = 1.0, and in those steps
\* the peak distance of each teardrop equals its radius (the circle).
C6_BoltCutIsTeardropWithRatioOne ==
    Returned("bolt_cut_sinkhole") =>
        /\ result = teardrop_bolt_cut_sinkhole(args.a, 10)
        /\ result.raised = NoError
        /\ result.steps[2].object.call[2] = args.a.shaft_radius
        /\ result.steps[3].object.call[2] = args.a.head_radius

C6_Witness ==
    /\ Returned("bolt_cut_sinkhole")
    /\ args.a.extension_distance > 0
    /\ args.a.chamfer_radius > 0
    /\ Len(result.steps) = 5
    /\ result = teardrop_bolt_cut_sinkhole(args.a, 10)

\* C9: for peak_distance >= radius, the bounding box of teardrop_sketch is
\* 2 * radius wide in X and radius + peak_distance high in Y for every
\* alignment, and teardrop_cylinder has the same X and Y sizes and a Z size
\* equal to height for every X, Y and Z alignment.
C9_TeardropSizeIndependentOfAlign ==
    /\ (Returned("teardrop_sketch") /\ args.peak_distance >= args.radius)
        => /\ result.raised = NoError
           /\ size_X(result.bounding_box) = 2 * args.radius
           /\ size_Y(result.bounding_box) = args.radius + args.peak_distance
    /\ (Returned("teardrop_cylinder") /\ args.peak_distance >= args.radius)
        => /\ result.raised = NoError
           /\ size_X(result.bounding_box) = 2 * args.radius
           /\ size_Y(result.bounding_box) = args.radius + args.peak_distance
           /\ size_Z(result.bounding_box) = args.height

\* a cylinder with a peak beyond the radius, moved in X, Y and Z
C9_Witness ==
    /\ Returned("teardrop_cylinder")
    /\ args.peak_distance > args.radius
    /\ args.align = <<"MIN", "MAX", "CENTER">>
    /\ size_Z(result.bounding_box) = args.height
    /\ result.bounding_box.min_z < 0 /\ result.bounding_box.min_x = 0

(***************************************************************************)
(* Claims about ball_socket                                                *)
(***************************************************************************)
BallSocketOuterDimensions ==
    /\ result.size_xy_squared
        = (2 * (args.ball_radius + args.wall_thickness))
          * (2 * (args.ball_radius + args.wall_thickness))
    /\ result.min_z = 0
    /\ result.max_z - result.min_z = 2 * args.ball_radius

\* C8 as stated: for every ball_radius, wall_thickness and tolerance, the
\* bounding box of the built socket is 2 * (ball_radius + wall_thickness) in
\* X and Y and 2 * ball_radius in Z with the base at z = 0.
C8_Original_OuterDimensionsForEveryInput ==
    (Returned("ball_socket") /\ result.raised = NoError)
    => BallSocketOuterDimensions

\* C8 amended: the same, for tolerance <= wall_thickness (the flange stays
\* inside the outer cylinder) and wall_thickness <= ball_radius (the flex
\* cuts end above the base).
C8_OuterDimensionsWhenFlangeInsideShell ==
    (Returned("ball_socket") /\ result.raised = NoError
        /\ args.tolerance <= args.wall_thickness
        /\ args.wall_thickness <= args.ball_radius)
    => BallSocketOuterDimensions

\* two tolerances, same outer dimensions
C8_Witness ==
    /\ Returned("ball_socket") /\ result.raised = NoError
    /\ args.tolerance > 0 /\ args.tolerance < args.wall_thickness
    /\ args.wall_thickness < args.ball_radius
    /\ BallSocketOuterDimensions

(***************************************************************************)
(* Claims about Point                                                      *)
(***************************************************************************)
\* C11: related_point_by_axis raises ValueError in exactly three cases: the
\* axis is Axis.X and the angle is vertical (cosine below the threshold, 90
\* or 270 degrees); the axis is Axis.Y and the angle is horizontal (sine
\* below the threshold, 0 or 180 degrees); the axis is neither Axis.X nor
\* Axis.Y.  In every other case it returns a Point.  An omitted axis behaves
\* as Axis.X, and the receiver is not modified.
C11_RaisesInExactlyThreeCases ==
    Returned("related_point_by_axis") =>
        LET ax == IF args.axis = None THEN "X" ELSE args.axis[1] IN
        /\ (result.raised # NoError)
            <=> \/ (ax = "X" /\ args.angle \in {90, 270})
                \/ (ax = "Y" /\ args.angle \in {0, 180})
                \/ ax \notin {"X", "Y"}
        /\ (ax = "X" /\ args.angle \in {90, 270}) => result.raised = ErrVerticalAngle
        /\ (ax = "Y" /\ args.angle \in {0, 180}) => result.raised = ErrHorizontalAngle
        /\ ax \notin {"X", "Y"} => result.raised = ErrAxis
        /\ (result.raised = NoError) <=> (result.point # None)
        /\ args.axis = None
            => result = related_point_by_axis(args.self, args.angle, args.axis_distance, Some("X"))
        /\ result.self_after = args.self

\* a horizontal angle is accepted along Axis.X and rejected along Axis.Y
C11_Witness ==
    /\ Returned("related_point_by_axis")
    /\ args.axis = Some("Y") /\ args.angle = 180
    /\ result.raised = ErrHorizontalAngle
    /\ related_point_by_axis(args.self, 180, args.axis_distance, None).raised = NoError

\* C12: for an accepted angle and every axis_distance, positive or
\* negative, the point returned by related_point_by_axis is displaced from
\* the receiver by exactly axis_distance along the chosen axis and lies on
\* the straight line through the receiver at the given angle: along Axis.X
\* the y displacement is axis_distance * tan(angle), along Axis.Y the x
\* displacement is axis_distance / tan(angle).
C12_DisplacedAlongAxisOnTheLine ==
    (Returned("related_point_by_axis") /\ result.raised = NoError) =>
        LET p == result.point[1]
            dx == p.x - args.self.x
            dy == p.y - args.self.y IN
        IF axis_or_default(args.axis) = "X"
        THEN dx = args.axis_distance /\ dy * Cos5(args.angle) = args.axis_distance * Sin5(args.angle)
        ELSE dy = args.axis_distance /\ dx * Sin5(args.angle) = args.axis_distance * Cos5(args.angle)

\* C13: constructing a Point from a two-element list, Point([x, y]), and
\* from a two-element tuple, Point((x, y)), both produce the same point as
\* Point(x, y).
C13_ListAndTupleConstructLikeCoordinates ==
    (Returned("Point.__init__") /\ args.x.kind \in {"list", "tuple"}
        /\ Len(args.x.value) = 2 /\ args.y = PyNone)
    => result = Point__init__(Float(args.x.value[1]), Float(args.x.value[2]))

\* C14: p[0] is x and p[1] is y, any other index raises IndexError;
\* iterating yields x then y, so list(p) = [p[0], p[1]] and Point(list(p))
\* equals p; X and Y return the same values as x and y; none of these
\* operations changes the point.
C14_IndexingIterationAndProperties ==
    /\ Returned("Point.__getitem__") =>
        /\ args.index = 0 => (result.raised = NoError /\ result.value = Some(args.self.x))
        /\ args.index = 1 => (result.raised = NoError /\ result.value = Some(args.self.y))
        /\ args.index \notin {0, 1} => (result.raised = ErrIndex /\ result.value = None)
        /\ result.self_after = args.self
    /\ Returned("Point.__iter__") =>
        LET p == args.self
            rebuilt == Point__init__(ListOf(result.items), PyNone) IN
        /\ result.items = <<p.x, p.y>>
        /\ result.items = <<Point__getitem__(p, 0).value[1], Point__getitem__(p, 1).value[1]>>
        /\ rebuilt = Point__init__(Float(p.x), Float(p.y))
        /\ rebuilt.raised = NoError
        /\ X(p) = p.x /\ Y(p) = p.y
        /\ result.self_after = p

\* indexing a point whose coordinates differ, below 0
C14_Witness ==
    /\ Returned("Point.__getitem__")
    /\ args.index = -1 /\ args.self.x # args.self.y
    /\ result.raised = ErrIndex

\* C15: for two distinct points p1 and p2, shifted_midpoint(p1, p2, 0) is
\* midpoint(p1, p2); for every shift s the result lies on the line through
\* p1 and p2 at distance |s| from the midpoint, on the p2 side when s > 0
\* and on the p1 side when s < 0; midpoint is symmetric in its arguments,
\* and shifted_midpoint(p1, p2, s) = shifted_midpoint(p2, p1, -s).
C15_ShiftedMidpointOnLineAtShift ==
    /\ (Returned("shifted_midpoint") /\ args.point1 # args.point2) =>
        LET p1 == args.point1
            p2 == args.point2
            s == args.shift
            m == midpoint(p1, p2)
            r == result.point[1]
            along == (r.x - m.x) * (p2.x - p1.x) + (r.y - m.y) * (p2.y - p1.y) IN
        /\ result.raised = NoError
        /\ s = 0 => r = m
        /\ (r.x - p1.x) * (p2.y - p1.y) = (r.y - p1.y) * (p2.x - p1.x)
        /\ (r.x - m.x) * (r.x - m.x) + (r.y - m.y) * (r.y - m.y) = s * s
        /\ s > 0 => along > 0
        /\ s < 0 => along < 0
        /\ result = shifted_midpoint(p2, p1, -s)
    /\ (Returned("midpoint") /\ args.point1 # args.point2) =>
        result.point = midpoint(args.point2, args.point1)

\* a negative shift along a slanted segment moves the midpoint towards p1
C15_Witness ==
    /\ Returned("shifted_midpoint")
    /\ args.shift < 0
    /\ args.point1.x # args.point2.x /\ args.point1.y # args.point2.y
    /\ result.raised = NoError
    /\ result.point[1] # midpoint(args.point1, args.point2)

(***************************************************************************)
(* Claims about the circle helpers of basic_shapes.py                      *)
(***************************************************************************)
\* C16: circular_intersection(radius, coordinate) raises ValueError for a
\* coordinate that is negative or greater than radius, and for 0 <=
\* coordinate <= radius returns the non-negative value v with v * v +
\* coordinate * coordinate = radius * radius.
C16_CoordinateOutsideZeroToRadiusRaises ==
    Returned("circular_intersection") =>
        /\ (args.coordinate < 0 \/ args.coordinate > args.radius)
            => IsValueError(result.raised)
        /\ (0 <= args.coordinate /\ args.coordinate <= args.radius)
            => /\ result.raised = NoError
               /\ result.value_squared # None
               /\ result.value_squared[1] + args.coordinate * args.coordinate = args.radius * args.radius

\* C17: distance_to_circle_edge(radius, point, angle) raises ValueError
\* exactly when the line through point in the direction angle does not meet
\* the circle of the given radius centred at the origin; otherwise it
\* returns the larger root t of t^2 + 2 (x cos + y sin) t + (x^2 + y^2 -
\* radius^2) = 0.  For a point inside or on the circle it never raises, the
\* returned t is >= 0 and point + t (cos, sin) is on the circle.
C17_LargerRootUnlessLineMissesCircle ==
    Returned("distance_to_circle_edge") =>
        LET x == args.point.x
            y == args.point.y
            r == args.radius
            cos5 == Cos5(args.angle)
            sin5 == Sin5(args.angle)
            b5 == 2 * (x * cos5 + y * sin5)
            c == x * x + y * y - r * r
            \* 5 * the distance from the centre to the line
            offset5 == x * sin5 - y * cos5 IN
        /\ (result.raised # NoError) <=> (offset5 * offset5 > 25 * r * r)
        /\ (result.raised # NoError) <=> (b5 * b5 - 100 * c < 0)
        /\ result.raised = NoError =>
            LET t10 == result.t10[1] IN
            /\ t10 * t10 + 2 * b5 * t10 + 100 * c = 0
            /\ t10 >= (-2 * b5) - t10
        /\ c <= 0 =>
            /\ result.raised = NoError
            /\ result.t10[1] >= 0
            /\ (50 * x + result.t10[1] * cos5) * (50 * x + result.t10[1] * cos5)
                + (50 * y + result.t10[1] * sin5) * (50 * y + result.t10[1] * sin5)
                = (50 * r) * (50 * r)

\* a point strictly inside the circle, off the centre, with two distinct
\* roots of opposite signs
C17_Witness ==
    /\ Returned("distance_to_circle_edge")
    /\ args.point # Point(0, 0)
    /\ args.point.x * args.point.x + args.point.y * args.point.y < args.radius * args.radius
    /\ args.angle \notin {0, 90, 180, 270}
    /\ result.raised = NoError
    /\ result.t10[1] > 0
    /\ (-2 * circle_edge_b5(args.point, args.angle)) - result.t10[1] < 0

(***************************************************************************)
(* Claims about the extension of the bolt hole, the twist-snap fitting and *)
(* the parameters of the dovetail split line                                *)
(***************************************************************************)
\* C18: in teardrop_bolt_cut_sinkhole, extension_distance extends the
\* shaft: when extension_distance > 0 the hole is lengthened by exactly
\* extension_distance and the added length continues the shaft's profile
\* (shaft_radius, starting at the shaft's free end face); when
\* extension_distance <= 0 no extension step is performed and the Z size of
\* the hole is shaft_depth + head_depth.
C18_ExtensionContinuesTheShaft ==
    (Returned("teardrop_bolt_cut_sinkhole") /\ result.raised = NoError) =>
        LET a == args.a
            extrusions == {i \in 1..Len(result.steps) : result.steps[i].step = "extrude"} IN
        /\ a.extension_distance > 0 =>
            /\ result.size_z = a.shaft_depth + a.head_depth + a.extension_distance
            /\ Cardinality(extrusions) = 1
            /\ \A i \in extrusions :
                /\ result.steps[i].amount = a.extension_distance
                /\ result.steps[i].extruded.of = "shaft"
                /\ result.steps[i].extruded.radius = a.shaft_radius
        /\ a.extension_distance <= 0 =>
            /\ extrusions = {}
            /\ result.size_z = a.shaft_depth + a.head_depth

\* C19: in twist_snap_connector, connector_diameter is the base diameter of
\* the connector: the base cylinder of the returned part has diameter
\* connector_diameter (radius connector_diameter / 2), and the bore of the
\* twist_snap_socket built with the same parameters is wider than the
\* connector body by exactly tolerance on the radius.
C19_ConnectorDiameterIsTheBaseDiameter ==
    /\ Returned("twist_snap_connector") =>
        /\ 2 * result.base_cylinder.radius = args.connector_diameter
        /\ twist_snap_socket(args).bore.radius - result.base_cylinder.radius = args.tolerance
    /\ Returned("twist_snap_socket") =>
        result.bore.radius - twist_snap_connector(args).base_cylinder.radius = args.tolerance

\* C20: the linear_offset, tail_angle_offset, length_ratio and depth_ratio
\* passed to dovetail_subpart are the values with which the split line of
\* the dovetail section is computed: for TRADITIONAL style each is the
\* corresponding argument received by dovetail_split_line, and for SNUGTAIL
\* style length_ratio and depth_ratio are the values used by
\* snugtail_subpart_outline, including its length_ratio + depth_ratio <= 1
\* check.
C20_SplitLineUsesTheCallersParameters ==
    (Returned("dovetail_subpart") /\ dovetail_subpart_guards(args) = NoError) =>
        /\ (args.style = "SNUGTAIL" /\ ratio_sum_exceeds_one(args.length_ratio, args.depth_ratio))
            => result.raised = ErrRatios
        /\ result.raised = NoError =>
            LET i == IF args.vertical_offset > 0 THEN 2 ELSE 1 IN
            \A o \in {result.outlines[i].floor, result.outlines[i].top} :
                /\ args.style = "TRADITIONAL" =>
                    /\ o.split.function = "dovetail_split_line"
                    /\ o.split.linear_offset = Some(args.linear_offset)
                    /\ o.split.tail_angle_offset = Some(args.tail_angle_offset)
                    /\ o.split.length_ratio = Some(args.length_ratio)
                    /\ o.split.depth_ratio = Some(args.depth_ratio)
                /\ args.style = "SNUGTAIL" =>
                    /\ o.split.function = "snugtail_subpart_outline"
                    /\ o.split.length_ratio = Some(args.length_ratio)
                    /\ o.split.depth_ratio = Some(args.depth_ratio)

(***************************************************************************)
(* Claims about the split lines of dovetail.py                             *)
(***************************************************************************)
\* C21: in dovetail_split_line, linear_offset offsets the centre of the
\* tongue along the line: for every section, tolerance, tail_angle_offset,
\* taper_distance, length_ratio and depth_ratio, the two tongue-tip corners
\* (tail_end_start, tail_end) and the two base corners (tail_base_start,
\* tail_base_resume) are each symmetric about the point at distance
\* length / 2 + linear_offset along the cut direction from the
\* tolerance-shifted start, and with linear_offset = 0 that point is the
\* midpoint of the cut.
C21_TongueCentredAtLinearOffset ==
    Returned("dovetail_split_line") =>
        LET cos5 == Cos5(angle_to(args.start, args.end))
            sin5 == Sin5(angle_to(args.start, args.end))
            length == distance_to(args.start, args.end)
            half_tolerance == IF args.section = "TAIL" THEN -(args.tolerance \div 2) ELSE args.tolerance \div 2
            shifted_start == Point(args.start.x + (half_tolerance * sin5) \div 5, args.start.y - (half_tolerance * cos5) \div 5)
            along_distance == length \div 2 + args.linear_offset
            centre == Point(shifted_start.x + (along_distance * cos5) \div 5, shifted_start.y + (along_distance * sin5) \div 5)
            along(p) == (p.x - centre.x) * cos5 + (p.y - centre.y) * sin5
            across(p) == (p.x - centre.x) * sin5 - (p.y - centre.y) * cos5 IN
        /\ result.adjusted_start_point = shifted_start
        /\ along(result.tail_end_start) = -along(result.tail_end)
        /\ across(result.tail_end_start) = across(result.tail_end)
        /\ along(result.tail_base_start) = -along(result.tail_base_resume)
        /\ across(result.tail_base_start) = 0 /\ across(result.tail_base_resume) = 0
        /\ args.linear_offset = 0 => centre = midpoint(result.adjusted_start_point, result.adjusted_end_point)

\* a slanted cut with an offset, a tolerance, a taper and a tail angle
C21_Witness ==
    /\ Returned("dovetail_split_line")
    /\ args.linear_offset < 0 /\ args.tolerance > 0 /\ args.taper_distance > 0
    /\ args.tail_angle_offset = 45 /\ args.section = "SOCKET"
    /\ args.start.x # args.end.x /\ args.start.y # args.end.y
    /\ result.tail_end_start # result.tail_base_start

(***************************************************************************)
(* Claims about the teardrop shapes                                        *)
(***************************************************************************)
\* C22: the align argument of teardrop_sketch aligns the teardrop in each
\* axis the way the kernel's Align does: Align.MIN puts the sketch's
\* minimum extent at 0, Align.MAX puts its maximum extent at 0 and
\* Align.CENTER centres its extent on 0, in X (extent 2 * radius) and in Y
\* (extent radius + peak_distance) alike, for every peak_distance >= radius.
C22_AlignPlacesTheSketchExtent ==
    (Returned("teardrop_sketch") /\ args.peak_distance >= args.radius) =>
        LET box == result.bounding_box IN
        /\ result.raised = NoError
        /\ box.max_x - box.min_x = 2 * args.radius
        /\ box.max_y - box.min_y = args.radius + args.peak_distance
        /\ args.align[1] = "MIN" => box.min_x = 0
        /\ args.align[1] = "MAX" => box.max_x = 0
        /\ args.align[1] = "CENTER" => box.min_x + box.max_x = 0
        /\ args.align[2] = "MIN" => box.min_y = 0
        /\ args.align[2] = "MAX" => box.max_y = 0
        /\ args.align[2] = "CENTER" => box.min_y + box.max_y = 0

\* C23: with all other parameters fixed, the volume of
\* teardrop_bolt_cut_sinkhole strictly increases with teardrop_ratio for
\* teardrop_ratio >= 1.0, so the default teardrop (ratio 1.1) always has
\* more volume than bolt_cut_sinkhole with the same parameters.
C23_VolumeIncreasesWithTeardropRatio ==
    /\ (Returned("teardrop_bolt_cut_sinkhole") /\ args.teardrop_ratio >= 10) =>
        /\ result.raised = NoError /\ result.volume > 0
        /\ \A t \in TeardropRatios :
            t > args.teardrop_ratio => result.volume < teardrop_bolt_cut_sinkhole(args.a, t).volume
    /\ Returned("bolt_cut_sinkhole") =>
        result.volume < teardrop_bolt_cut_sinkhole(args.a, DefaultTeardropRatio).volume

\* a cylindrical hole with an extension and an anti-chamfer, smaller than
\* the default teardrop
C23_Witness ==
    /\ Returned("teardrop_bolt_cut_sinkhole")
    /\ args.teardrop_ratio = 10
    /\ args.a.extension_distance > 0 /\ args.a.chamfer_radius > 0
    /\ args.a.shaft_radius < args.a.head_radius
    /\ result.volume < teardrop_bolt_cut_sinkhole(args.a, 11).volume

(***************************************************************************)
(* C24: the stacked sections of dovetail_subpart tile the part's height:   *)
(* for TAIL and SOCKET, every vertical_tolerance >= 0 and every accepted   *)
(* vertical_offset other than 0, the top Z of the lower section equals the *)
(* floor Z of the section above it, the lowest floor is the part's minimum *)
(* Z and the highest top is the part's maximum Z.                          *)
(***************************************************************************)
C24_SectionsTileThePartHeight ==
    (Accepted /\ args.vertical_offset # 0 /\ args.vertical_tolerance >= 0) =>
        /\ Len(result.sections) = 2
        /\ result.sections[1].top_z = result.sections[2].floor_z
        /\ result.sections[1].floor_z = args.part.min_z
        /\ result.sections[2].top_z = part_max_z(args.part)

(***************************************************************************)
(* C25: every accepted input with vertical_tolerance >= 0 leads only to    *)
(* sections of positive height: each call of subpart_section has           *)
(* floor_z < top_z.                                                        *)
(***************************************************************************)
C25_EverySectionHasPositiveHeight ==
    (Accepted /\ args.vertical_tolerance >= 0) =>
        \A i \in 1..Len(result.sections) :
            result.sections[i].floor_z < result.sections[i].top_z

(***************************************************************************)
(* C30: tslot_split_line spaces its slots evenly: with                     *)
(* gap = (length - 2 * depth * n) / (n + 1) for slot_count = n, every      *)
(* iteration advances the running point by gap + 2 * depth along the cut,  *)
(* after the loop the running point is gap before the shifted end point,   *)
(* and with n = 0 the line is the straight line from the shifted start to  *)
(* the shifted end.                                                        *)
(***************************************************************************)
C30_SlotsAreEvenlySpaced ==
    Returned("tslot_split_line") =>
        LET length == distance_to(args.start, args.end)
            base_angle == angle_to(args.start, args.end)
            shifted_start == related_point(args.start, base_angle - 90, split_dovetail_tolerance(args))
            shifted_end == related_point(args.end, base_angle - 90, split_dovetail_tolerance(args)) IN
        LET gap == (length - 2 * args.depth * args.slot_count) \div (args.slot_count + 1) IN
            /\ gap * (args.slot_count + 1) = length - 2 * args.depth * args.slot_count
            /\ Len(result.slots) = args.slot_count
            /\ \A i \in 1..Len(result.slots) :
                /\ result.slots[i].last_point = related_point(shifted_start, base_angle, (i - 1) * (gap + 2 * args.depth))
                /\ result.slots[i].root_end = related_point(result.slots[i].last_point, base_angle, gap + 2 * args.depth)
            /\ related_point(result.last_point, base_angle, gap) = shifted_end
            /\ args.slot_count = 0 => result.pieces = << <<shifted_start, shifted_end>> >>

C30_Witness ==
    /\ Returned("tslot_split_line")
    /\ args.slot_count = 2
    /\ args.tolerance > 0
    /\ Len(result.slots) = 2
    /\ result.slots[2].last_point = result.slots[1].root_end
    /\ result.last_point # result.adjusted_end_point

(***************************************************************************)
(* C26: in snugtail_subpart_outline opposite_angle is the direction        *)
(* opposite to the cut for every start and end: it equals base_angle + 180 *)
(* modulo 360 for every base_angle in [0, 360), so end_tail_line lies from *)
(* fin_disconnect back towards the start of the cut, mirroring             *)
(* start_tail_line, which lies from fin_connect towards the end.           *)
(***************************************************************************)
C26_OppositeAngleIsBaseAnglePlus180 ==
    (Returned("snugtail_subpart_outline") /\ result.raised = NoError) =>
        LET line == result.tail_line[1] IN
        /\ line.opposite_angle % 360 = (line.base_angle + 180) % 360
        /\ line.start_tail_line = related_point(line.fin_connect, line.base_angle, line.tail_line_distance)
        /\ line.end_tail_line = related_point(line.fin_disconnect, line.base_angle + 180, line.tail_line_distance)

(***************************************************************************)
(* C27: every outline returned by subpart_outline is a closed chain: for   *)
(* each style and section, any tolerance and scarf_offset, straightened or *)
(* not, the cut line begins at the boundary polyline's first point (the    *)
(* start shifted perpendicular to the cut by the scarf offset and the      *)
(* signed half tolerance), ends at the boundary's last point (the end      *)
(* shifted the same way), and each piece of the cut line begins where the  *)
(* previous piece ended.                                                   *)
(***************************************************************************)
C27_OutlineIsAClosedChain ==
    (Returned("subpart_outline") /\ result.raised = NoError) =>
        LET boundary == result.tail_line[1].boundary
            pieces == result.tail_line[1].pieces
            base_angle == angle_to(args.start, args.end)
            shift == args.scarf_offset + split_dovetail_tolerance(args) IN
        /\ boundary[1] = related_point(args.start, base_angle - 90, shift)
        /\ boundary[Len(boundary)] = related_point(args.end, base_angle - 90, shift)
        /\ pieces[1][1] = boundary[1]
        /\ pieces[Len(pieces)][Len(pieces[Len(pieces)])] = boundary[Len(boundary)]
        /\ \A i \in 1..(Len(pieces) - 1) : pieces[i + 1][1] = pieces[i][Len(pieces[i])]

(***************************************************************************)
(* C28: every click-fit divot is shaped for the way it is used: wherever   *)
(* the dovetail, slide-box and high-top-slide-box code combines a divot    *)
(* with a part, a divot that is subtracted is built with positive=False    *)
(* and a divot that is added is built with positive=True, for every        *)
(* section, style and vertical_offset.                                     *)
(***************************************************************************)
C28_DivotShapedForItsUse ==
    (pc = "returned" /\ op \in {"subpart_divots", "slide_box", "high_top_slide_box"}) =>
        \A i \in 1..Len(result) :
            result[i].divot.positive = ~(result[i].mode = "SUBTRACT" \/ result[i].combined = "SUBTRACT")

(***************************************************************************)
(* C29: the modes chosen by traditional_subpart_divots make a tail and a   *)
(* socket mate: for every vertical_offset the top divot of the TAIL and    *)
(* the top divot of the SOCKET get opposite modes, the same holds for the  *)
(* bottom divots, and within one part the top divot and the bottom divots  *)
(* get opposite modes.                                                     *)
(***************************************************************************)
C29_TailAndSocketModesAreOpposite ==
    (Returned("subpart_divots") /\ args.style = "TRADITIONAL") =>
        LET Opposite(m, n) == {m, n} = {"ADD", "SUBTRACT"}
            mate == traditional_subpart_divots(
                        [args EXCEPT !.section = IF args.section = "TAIL" THEN "SOCKET" ELSE "TAIL"]) IN
        /\ Len(result) = 3
        /\ \A i \in 1..3 : Opposite(result[i].mode, mate[i].mode)
        /\ Opposite(result[1].mode, result[2].mode)
        /\ Opposite(result[1].mode, result[3].mode)

C29_Witness ==
    /\ Returned("subpart_divots")
    /\ args.style = "TRADITIONAL"
    /\ args.section = "SOCKET"
    /\ args.vertical_offset = 0
    /\ result[1].mode = "SUBTRACT"
    /\ result[2].mode = "ADD"

====
